---- MODULE Spec2Model ----
(***************************************************************************)
(* A model of the twoliter build orchestrator:                             *)
(*   - tool installation, sequential and concurrent                        *)
(*                                (twoliter/src/tools.rs)                  *)
(*   - the Alpha SDK helper and BuildVariant::run                          *)
(*                                (twoliter/src/cmd/build.rs)              *)
(*   - the mount planner, Exec::run and the test-file scan                 *)
(*                                (twoliter/src/cmd/exec.rs)               *)
(*   - exec                       (twoliter/src/common.rs, src/common.rs)  *)
(*   - image locators and image provisioning                               *)
(*                                (twoliter/src/docker)                    *)
(* Each part has its own specification; the variables of the other parts   *)
(* stay at their initial values.                                           *)
(***************************************************************************)
EXTENDS Integers, Sequences, FiniteSets, TLC

\* ------------------------------------------------------------------ bounds
\* Number of different tool bundles (values of TOOLS_HASH of different builds
\* of the binary).
MaxHashes == 2
\* Number of member files of the embedded tarball that are tracked.
NumMembers == 2
\* Number of install_tools invocations that can be in progress or pending.
MaxProcs == 2

Hashes == 1..MaxHashes
Members == 1..NumMembers
Procs == 1..MaxProcs

\* Content of a file that does not exist, and of a file truncated by a failed
\* write.
NoFile == 0
Truncated == -1

VARIABLES
    tools_dir,  \* TRUE iff the tools directory exists
    members,    \* member file -> NoFile or the hash of the bundle that wrote it
    tfiles,     \* "install" / "installed" in tools_dir -> content
    inv,        \* install_tools invocation -> its position and what it did
    last,       \* the invocation that returned last
    \* --- BuildVariant::run and its AlphaSdk (cmd/build.rs)
    bpc,            \* position in BuildVariant::run
    bfs,            \* host path -> "none" | "dir" | "file"
    undeletable,    \* host paths whose removal fails
    bfs_start,      \* bfs as it was when run started
    sdk,            \* the AlphaSdk object: "none" | "alive" | "dropped"
    container,      \* its DockerContainer: "none" | "running" | "removed"
    created_files,  \* AlphaSdk.created_files
    runner,         \* result of the cargo make call: "none" | "Ok" | "Err:build"
    result,         \* what run returns: "none" | "Ok" | "Err:<step>"
    cthread,        \* the thread Drop spawns: "none" | "running" | "finished"
    to_delete,      \* the clone of created_files the thread owns
    cleanup_runs,   \* how often AlphaSdk::cleanup was started
    cleanup_result, \* "none" | "Ok" | "Err"
    teardowns,      \* how often the container was torn down
    \* --- the mount planner (cmd/exec.rs, prepare_mounts and add)
    mpc,        \* position in prepare_mounts
    mfs,        \* host path (links followed) -> "none" | "dir" | "file"
    mounts,     \* the HashSet<Mount> being built
    nadd,       \* how many path variables have been gone through
    ladd,       \* the last call of add: its arguments and what it did
    \* --- Exec::run (cmd/exec.rs), exec (common.rs) and main
    epc,             \* position: "start" | "env" | "spawn" | "returned" | "exited"
    ecmd,            \* the subcommand: "exec" | "build" | "command"
    rev,             \* the common.rs in use: "twoliter" (twoliter/src) | "src"
    cargo_home,      \* Exec.cargo_home
    makefile_task,   \* Exec.makefile_task
    additional_args, \* Exec.additional_args
    arch,            \* BuildVariant.arch
    henv,            \* the host variables std::env::vars() has yielded
    args,            \* the argument vector being built
    task_at,         \* where the task name stands in args (0: not yet)
    log_level,       \* log::max_level() when exec ran
    child,           \* what became of the command exec ran
    eres,            \* what exec (and so run) returned
    cli_exit,        \* exit status of the process: {} while it runs
    \* --- _find_testsys_test_path (cmd/exec.rs)
    spc,        \* "args" | "done"
    sargs,      \* the command line
    sfound,     \* what the scan returned: {} (None) or {path}
    \* --- image locators (docker/image.rs)
    upc,        \* "new" | "done"
    uloc,       \* the ImageUri or ImageArchUri
    urendered,  \* what uri() returned
    \* --- image provisioning (src/cmd/build.rs, docker/twoliter.rs)
    ppc,        \* 0: BuildVariant::run started; i: step i of ProvSteps is next
    psdk,       \* the sdk handed to create_twoliter_image_if_not_exists
    pbase,      \* the BASE build argument
    pimage,     \* the ImageUri returned: {} or {uri}
    presult,    \* "none" | "Ok" | "Err" | "panic"
    pexists,    \* the tag twoliter:latest was in the image store at the call
    pbuilds,    \* docker build commands the call has run
    \* --- concurrent install_tools invocations (tools.rs)
    conc        \* so far: invocations started, whether two overlapped, one failed

toolsVars == <<tools_dir, members, tfiles, inv, last>>

buildVars == <<bpc, bfs, undeletable, bfs_start, sdk, container, created_files, runner, result,
               cthread, to_delete, cleanup_runs, cleanup_result, teardowns>>

mountVars == <<mpc, mfs, mounts, nadd, ladd>>

execVars == <<epc, ecmd, rev, cargo_home, makefile_task, additional_args, arch,
              henv, args, task_at, log_level, child, eres, cli_exit>>

scanVars == <<spc, sargs, sfound>>

uriVars == <<upc, uloc, urendered>>

provVars == <<ppc, psdk, pbase, pimage, presult, pexists, pbuilds>>

\* What the tools, build and mount specifications leave alone.
restVars == <<execVars, scanVars, uriVars, provVars, conc>>

vars == <<toolsVars, buildVars, mountVars, restVars>>

\* ------------------------------------------------------ tools.rs: install
\* tools.rs:13, the file whose content decides whether to install.
sentinel_filepath == "install"
\* tools.rs:31, the file the hash is written to after unpacking.
installed == "installed"

NoInvocation ==
    [pc |-> "idle", hash |-> 0, force |-> FALSE, before |-> NoFile,
     unpacked |-> FALSE, wrote_member |-> FALSE, wrote_marker |-> FALSE,
     result |-> "none", failed |-> "none", prev |-> [valid |-> FALSE, hash |-> 0, force |-> FALSE, ok |-> FALSE]]

NoLast == [valid |-> FALSE, hash |-> 0, force |-> FALSE, ok |-> FALSE]

ToolsInit ==
    /\ tools_dir = FALSE
    /\ members = [m \in Members |-> NoFile]
    /\ tfiles = [f \in {"install", "installed"} |-> NoFile]
    /\ inv = [p \in Procs |-> NoInvocation]
    /\ last = NoLast

\* should_install: TRUE when the sentinel is not a file, cannot be read, or
\* holds something else than this binary's TOOLS_HASH.
should_install(content, readOk, TOOLS_HASH) ==
    IF content = NoFile THEN TRUE
    ELSE IF ~readOk THEN TRUE
    ELSE content # TOOLS_HASH

\* An invocation of install_tools(tools_dir, force) by a binary whose embedded
\* bundle has hash h begins.
InstallStart(p, h, force) ==
    /\ inv[p].pc = "idle"
    /\ inv' = [inv EXCEPT ![p] =
                 [NoInvocation EXCEPT !.pc = "check", !.hash = h, !.force = force,
                                      !.before = tfiles[installed], !.prev = last]]
    /\ UNCHANGED <<tools_dir, members, tfiles, last>>

\* tools.rs:14-17: the early return when not forced and the hashes match.
InstallCheck(p) ==
    /\ inv[p].pc = "check"
    /\ \E readOk \in BOOLEAN :
         IF ~inv[p].force /\ ~should_install(tfiles[sentinel_filepath], readOk, inv[p].hash)
         THEN inv' = [inv EXCEPT ![p].pc = "done", ![p].result = "Ok"]
         ELSE inv' = [inv EXCEPT ![p].pc = "create_dir"]
    /\ UNCHANGED <<tools_dir, members, tfiles, last>>

\* tools.rs:21-23: fs::create_dir_all(&tools_dir) succeeds.
InstallCreateDir(p) ==
    /\ inv[p].pc = "create_dir"
    /\ tools_dir' = TRUE
    /\ inv' = [inv EXCEPT ![p].pc = "unpack"]
    /\ UNCHANGED <<members, tfiles, last>>

\* tools.rs:21-23: fs::create_dir_all fails, `?` returns the error.
InstallCreateDirFail(p) ==
    /\ inv[p].pc = "create_dir"
    /\ ~tools_dir
    /\ inv' = [inv EXCEPT ![p].pc = "done", ![p].result = "Err",
                          ![p].failed = "create_dir"]
    /\ UNCHANGED <<tools_dir, members, tfiles, last>>

\* Unpacking that leaves a member file that is already there as it is.
InstallUnpack_keeps(p) ==
    /\ inv[p].pc = "unpack"
    /\ members' = [m \in Members |-> IF members[m] = NoFile THEN inv[p].hash
                                     ELSE members[m]]
    /\ inv' = [inv EXCEPT ![p].pc = "write", ![p].unpacked = TRUE,
                          ![p].wrote_member = TRUE]
    /\ UNCHANGED <<tools_dir, tfiles, last>>

\* tools.rs:26-28, 67-78: the archive is unpacked, every member is written.
InstallUnpack(p) ==
    /\ inv[p].pc = "unpack"
    /\ members' = [m \in Members |-> inv[p].hash]
    /\ inv' = [inv EXCEPT ![p].pc = "write", ![p].unpacked = TRUE,
                          ![p].wrote_member = TRUE]
    /\ UNCHANGED <<tools_dir, tfiles, last>>

\* InstallUnpackFail with the error of unpack_tarball ignored: the invocation
\* goes on to write the hash.
InstallUnpackFail_ignored(p) ==
    /\ inv[p].pc = "unpack"
    /\ \E k \in 0..(NumMembers - 1) :
         /\ members' = [m \in Members |-> IF m <= k THEN inv[p].hash ELSE members[m]]
         /\ inv' = [inv EXCEPT ![p].pc = "write", ![p].failed = "unpack",
                               ![p].wrote_member = (k > 0)]
    /\ UNCHANGED <<tools_dir, tfiles, last>>

\* tools.rs:72-75: archive.unpack fails after writing the first k members.
InstallUnpackFail(p) ==
    /\ inv[p].pc = "unpack"
    /\ \E k \in 0..(NumMembers - 1) :
         /\ members' = [m \in Members |-> IF m <= k THEN inv[p].hash ELSE members[m]]
         /\ inv' = [inv EXCEPT ![p].pc = "done", ![p].result = "Err",
                               ![p].failed = "unpack",
                               ![p].wrote_member = (k > 0)]
    /\ UNCHANGED <<tools_dir, tfiles, last>>

\* InstallWrite that returns Ok without having written the hash.
InstallWrite_nothing(p) ==
    /\ inv[p].pc = "write"
    /\ inv' = [inv EXCEPT ![p].pc = "done", ![p].result = "Ok"]
    /\ UNCHANGED <<tools_dir, members, tfiles, last>>

\* tools.rs:31-35: fs::write(&installed, &TOOLS_HASH) succeeds.
InstallWrite(p) ==
    /\ inv[p].pc = "write"
    /\ tfiles' = [tfiles EXCEPT ![installed] = inv[p].hash]
    /\ inv' = [inv EXCEPT ![p].pc = "done", ![p].result = "Ok", ![p].wrote_marker = TRUE]
    /\ UNCHANGED <<tools_dir, members, last>>

\* tools.rs:31-35: fs::write fails; the file is untouched or left truncated.
InstallWriteFail(p) ==
    /\ inv[p].pc = "write"
    /\ \E c \in {tfiles[installed], Truncated} :
         /\ tfiles' = [tfiles EXCEPT ![installed] = c]
         /\ inv' = [inv EXCEPT ![p].pc = "done", ![p].result = "Err",
                               ![p].failed = "write",
                               ![p].wrote_marker = (c # tfiles[installed])]
    /\ UNCHANGED <<tools_dir, members, last>>

\* install_tools has returned; the process ends.
InstallReturn(p) ==
    /\ inv[p].pc = "done"
    /\ last' = [valid |-> TRUE, hash |-> inv[p].hash, force |-> inv[p].force,
                ok |-> inv[p].result = "Ok"]
    /\ inv' = [inv EXCEPT ![p] = NoInvocation]
    /\ UNCHANGED <<tools_dir, members, tfiles>>

\* The steps of install_tools between its call and its return.
InstallWork(p) ==
    \/ InstallCheck(p)
    \/ InstallCreateDir(p)
    \/ InstallCreateDirFail(p)
    \/ InstallUnpack(p)
    \/ InstallUnpackFail(p)
    \/ InstallWrite(p)
    \/ InstallWriteFail(p)

InstallStep(p) == InstallWork(p) \/ InstallReturn(p)

\* No other invocation is between its start and its return.
Alone(p) == \A q \in Procs \ {p} : inv[q].pc = "idle"

\* Invocations one after the other, as one command line after another.
SeqStart ==
    \E p \in Procs, h \in Hashes, force \in BOOLEAN :
        Alone(p) /\ InstallStart(p, h, force)

SeqStep == \E p \in Procs : InstallStep(p)

\* ------------------------------------------- cmd/exec.rs: the mount planner
\* Paths are sequences of components below the root <<>>. /lnk is a symbolic
\* link to /ext; every other path names itself.
project_dir == <<"proj">>

\* The directories and files that can exist on the host.
Nodes ==
    { <<>>, <<"proj">>, <<"proj", "f">>, <<"ext">>, <<"ext", "f">>,
      <<"new">>, <<"new", "f">> }

\* The values a path variable of the environment can have.
DeclPaths ==
    { <<"proj">>, <<"proj", "f">>, <<"ext">>, <<"ext", "f">>,
      <<"lnk">>, <<"lnk", "f">>, <<"new">>, <<"new", "f">> }

\* Number of path variables prepare_mounts goes through.
MaxDecl == 2

\* Path::starts_with: a is a prefix of b, component by component.
starts_with(b, a) == Len(a) <= Len(b) /\ SubSeq(b, 1, Len(a)) = a

\* Path::parent of a path that is not the root.
parent_of(path) == SubSeq(path, 1, Len(path) - 1)

\* The path with its symbolic links followed.
resolve(path) ==
    IF Len(path) >= 1 /\ path[1] = "lnk" THEN <<"ext">> \o Tail(path) ELSE path

\* Path::exists: the path, links followed, is a file or a directory.
exists(fs, path) == resolve(path) \in Nodes /\ fs[resolve(path)] # "none"

\* exec.rs:286-291, canonicalize: fails on a path that does not exist.
canonicalize(fs, path) ==
    IF exists(fs, path) THEN [ok |-> TRUE, path |-> resolve(path)]
    ELSE [ok |-> FALSE, path |-> path]

\* fs::create_dir_all: makes the path and its missing ancestors directories;
\* fails when the operating system refuses (ioOk = FALSE), when a component is
\* a file, or when the path goes through a link whose target is missing.
create_dir_all(fs, path, ioOk) ==
    LET r == resolve(path)
        blocked == \/ ~ioOk
                   \/ r \notin Nodes
                   \/ (r # path /\ fs[<<"ext">>] = "none")
                   \/ \E n \in Nodes : starts_with(r, n) /\ fs[n] = "file"
    IN IF blocked THEN [ok |-> FALSE, fs |-> fs]
       ELSE [ok |-> TRUE,
             fs |-> [n \in Nodes |-> IF starts_with(r, n) THEN "dir" ELSE fs[n]]]

\* commands.rs:123-133, Mount::new: a bind mount with the same path outside
\* and inside.
Mount_new(path) ==
    [type |-> "bind", source |-> path, destination |-> path, read_only |-> FALSE]

\* The result of add: ok, the file system and the mounts after it, and where
\* an error came from.
AddResult(ok, fs, ms, err) == [ok |-> ok, fs |-> fs, mounts |-> ms, err |-> err]

\* add_insert that mounts the path as given.
add_insert_raw(ms, fs, uncanonicalized_mount_path) ==
    LET c == canonicalize(fs, uncanonicalized_mount_path) IN
    IF c.ok THEN AddResult(TRUE, fs, ms \cup {Mount_new(uncanonicalized_mount_path)}, "none")
    ELSE AddResult(FALSE, fs, ms, "canonicalize")

\* The end of add, exec.rs:244-248: canonicalize the chosen path, insert it.
add_insert(ms, fs, uncanonicalized_mount_path) ==
    LET c == canonicalize(fs, uncanonicalized_mount_path) IN
    IF c.ok THEN AddResult(TRUE, fs, ms \cup {Mount_new(c.path)}, "none")
    ELSE AddResult(FALSE, fs, ms, "canonicalize")

\* add that treats a file path like a directory path: creates and mounts the
\* path itself.
add_file_as_dir(ms, fs, pdir, path, path_type, create, ioOk) ==
    IF create /\ ~exists(fs, path) /\ ~starts_with(path, pdir) THEN
        LET c == create_dir_all(fs, path, ioOk) IN
        IF c.ok THEN add_insert(ms, c.fs, path)
        ELSE AddResult(FALSE, c.fs, ms, "create_dir_all")
    ELSE IF ~exists(fs, path) /\ starts_with(path, pdir) THEN
        AddResult(TRUE, fs, ms, "none")
    ELSE add_insert(ms, fs, path)

\* add that creates what is missing whatever `create` says.
add_always_create(ms, fs, pdir, path, path_type, create, ioOk) ==
    IF ~exists(fs, path) /\ ~starts_with(path, pdir) THEN
        LET target == IF path_type = "FILE" THEN parent_of(path) ELSE path
            c == IF exists(fs, target) THEN [ok |-> TRUE, fs |-> fs]
                 ELSE create_dir_all(fs, target, ioOk)
        IN IF c.ok THEN add_insert(ms, c.fs, target)
           ELSE AddResult(FALSE, c.fs, ms, "create_dir_all")
    ELSE IF ~exists(fs, path) /\ starts_with(path, pdir) THEN
        AddResult(TRUE, fs, ms, "none")
    ELSE add_insert(ms, fs, path)

\* add without the skip of missing paths inside the project directory.
add_no_skip(ms, fs, pdir, path, path_type, create, ioOk) ==
    IF create /\ ~exists(fs, path) /\ ~starts_with(path, pdir) THEN
        IF path_type = "FILE" THEN
            IF Len(path) = 0 THEN AddResult(FALSE, fs, ms, "parent")
            ELSE IF ~exists(fs, parent_of(path)) THEN
                     LET c == create_dir_all(fs, parent_of(path), ioOk) IN
                     IF c.ok THEN add_insert(ms, c.fs, parent_of(path))
                     ELSE AddResult(FALSE, c.fs, ms, "create_dir_all")
                 ELSE add_insert(ms, fs, parent_of(path))
        ELSE
            LET c == create_dir_all(fs, path, ioOk) IN
            IF c.ok THEN add_insert(ms, c.fs, path)
            ELSE AddResult(FALSE, c.fs, ms, "create_dir_all")
    ELSE add_insert(ms, fs, path)

\* exec.rs:193-249, add.
add(ms, fs, pdir, path, path_type, create, ioOk) ==
    LET path_exists == exists(fs, path)
        in_project == starts_with(path, pdir)
    IN
    IF create /\ ~path_exists /\ ~in_project THEN
        IF path_type = "FILE" THEN
            IF Len(path) = 0 THEN AddResult(FALSE, fs, ms, "parent")
            ELSE LET parent == parent_of(path) IN
                 IF ~exists(fs, parent) THEN
                     LET c == create_dir_all(fs, parent, ioOk) IN
                     IF c.ok THEN add_insert(ms, c.fs, parent)
                     ELSE AddResult(FALSE, c.fs, ms, "create_dir_all")
                 ELSE add_insert(ms, fs, parent)
        ELSE
            LET c == create_dir_all(fs, path, ioOk) IN
            IF c.ok THEN add_insert(ms, c.fs, path)
            ELSE AddResult(FALSE, c.fs, ms, "create_dir_all")
    ELSE IF ~path_exists /\ in_project THEN
        AddResult(TRUE, fs, ms, "none")
    ELSE add_insert(ms, fs, path)

NoAdd ==
    [valid |-> FALSE, path |-> <<>>, type |-> "DIR", create |-> FALSE,
     existed |-> FALSE, in_project |-> FALSE, ok |-> TRUE, err |-> "none",
     created |-> {}, added |-> {}]

MountsIdle ==
    /\ mpc = "idle"
    /\ mfs = [n \in Nodes |-> IF n = <<>> THEN "dir" ELSE "none"]
    /\ mounts = {}
    /\ nadd = 0
    /\ ladd = NoAdd

\* The host when prepare_mounts is called: the project directory exists, /new
\* does not, the rest may or may not.
MountsInit ==
    /\ mpc = "start"
    /\ mfs \in { f \in [Nodes -> {"none", "dir", "file"}] :
                   /\ f[<<>>] = "dir" /\ f[project_dir] = "dir"
                   /\ f[<<"new">>] = "none" /\ f[<<"new", "f">>] = "none"
                   /\ f[<<"ext">>] # "file"
                   /\ f[<<"ext">>] = "none" => f[<<"ext", "f">>] = "none" }
    /\ mounts = {}
    /\ nadd = 0
    /\ ladd = NoAdd

\* exec.rs:132-135: the set starts with the mount of the project directory.
PlanStart ==
    /\ mpc = "start"
    /\ mounts' = {Mount_new(project_dir)}
    /\ mpc' = "paths"
    /\ UNCHANGED <<mfs, nadd, ladd>>

\* exec.rs:142-163: the next path variable is set; add is called with its
\* value and `?` returns its error.
AddPath ==
    /\ mpc = "paths"
    /\ nadd < MaxDecl
    /\ \E path \in DeclPaths, path_type \in {"FILE", "DIR"}, create \in BOOLEAN,
          ioOk \in BOOLEAN :
         LET r == add(mounts, mfs, project_dir, path, path_type, create, ioOk) IN
         /\ mfs' = r.fs
         /\ mounts' = r.mounts
         /\ mpc' = IF r.ok THEN "paths" ELSE "failed"
         /\ ladd' = [valid |-> TRUE, path |-> path, type |-> path_type,
                     create |-> create, existed |-> exists(mfs, path),
                     in_project |-> starts_with(path, project_dir),
                     ok |-> r.ok, err |-> r.err,
                     created |-> {n \in Nodes : r.fs[n] # mfs[n]},
                     added |-> r.mounts \ mounts]
    /\ nadd' = nadd + 1

\* exec.rs:143-151: the variable is not set: warn and continue.
AddPathUnset ==
    /\ mpc = "paths"
    /\ nadd < MaxDecl
    /\ nadd' = nadd + 1
    /\ UNCHANGED <<mpc, mfs, mounts, ladd>>

\* exec.rs:165-168: a testsys test file was found in the arguments; it is
\* canonicalized and mounted.
TestsysMount ==
    /\ mpc = "paths"
    /\ \E path \in DeclPaths :
         LET c == canonicalize(mfs, path) IN
         /\ mounts' = IF c.ok THEN mounts \cup {Mount_new(c.path)} ELSE mounts
         /\ mpc' = IF c.ok THEN "done" ELSE "failed"
    /\ UNCHANGED <<mfs, nadd, ladd>>

\* exec.rs:165-170: no testsys test file; Ok(mounts).
PlanDone ==
    /\ mpc = "paths"
    /\ mpc' = "done"
    /\ UNCHANGED <<mfs, mounts, nadd, ladd>>

MountsNext ==
    \/ PlanStart /\ UNCHANGED <<toolsVars, buildVars, restVars>>
    \/ AddPath /\ UNCHANGED <<toolsVars, buildVars, restVars>>
    \/ AddPathUnset /\ UNCHANGED <<toolsVars, buildVars, restVars>>
    \/ TestsysMount /\ UNCHANGED <<toolsVars, buildVars, restVars>>
    \/ PlanDone /\ UNCHANGED <<toolsVars, buildVars, restVars>>


\* ------------------------------------------- cmd/build.rs: BuildVariant::run
\* The host paths run and the AlphaSdk touch: project_dir/sbkeys,
\* project_dir/sources/models and temp_dir/sdk_rpms.
BPaths == {"sbkeys", "models", "sdk_rpms"}

\* TOOLS_HASH of the binary that runs the build.
BuildHash == 1

BuildIdle ==
    /\ bpc = "idle"
    /\ bfs = [x \in BPaths |-> "none"]
    /\ undeletable = {}
    /\ bfs_start = [x \in BPaths |-> "none"]
    /\ sdk = "none"
    /\ container = "none"
    /\ created_files = <<>>
    /\ runner = "none"
    /\ result = "none"
    /\ cthread = "none"
    /\ to_delete = <<>>
    /\ cleanup_runs = 0
    /\ cleanup_result = "none"
    /\ teardowns = 0

\* The state in which `twoliter build variant` is started: the project
\* directory may or may not have sbkeys and sources/models.
BuildInit ==
    /\ bpc = "start"
    /\ bfs \in {f \in [BPaths -> {"none", "dir"}] : f["sdk_rpms"] = "none"}
    /\ undeletable \in SUBSET {"models"}
    /\ bfs_start = bfs
    /\ sdk = "none"
    /\ container = "none"
    /\ created_files = <<>>
    /\ runner = "none"
    /\ result = "none"
    /\ cthread = "none"
    /\ to_delete = <<>>
    /\ cleanup_runs = 0
    /\ cleanup_result = "none"
    /\ teardowns = 0

\* cleanup without the is_file / is_dir tests: the removal of a path that does
\* not exist is an error.
RECURSIVE cleanup_unchecked(_, _, _)
cleanup_unchecked(objects, fs, bad) ==
    IF objects = <<>> THEN [fs |-> fs, ok |-> TRUE]
    ELSE LET added == Head(objects) IN
         IF fs[added] = "none" \/ added \in bad THEN [fs |-> fs, ok |-> FALSE]
         ELSE cleanup_unchecked(Tail(objects), [fs EXCEPT ![added] = "none"], bad)

\* cleanup that removes files only and passes over directories.
RECURSIVE cleanup_files_only(_, _, _)
cleanup_files_only(objects, fs, bad) ==
    IF objects = <<>> THEN [fs |-> fs, ok |-> TRUE]
    ELSE LET added == Head(objects) IN
         IF fs[added] = "file" THEN
             IF added \in bad THEN [fs |-> fs, ok |-> FALSE]
             ELSE cleanup_files_only(Tail(objects), [fs EXCEPT ![added] = "none"], bad)
         ELSE cleanup_files_only(Tail(objects), fs, bad)

\* AlphaSdk::cleanup: removes each object that is a file or a directory, skips
\* what is neither, and stops with the error at the first removal that fails.
RECURSIVE cleanup(_, _, _)
cleanup(objects, fs, bad) ==
    IF objects = <<>> THEN [fs |-> fs, ok |-> TRUE]
    ELSE LET added == Head(objects) IN
         IF fs[added] = "file" THEN
             IF added \in bad THEN [fs |-> fs, ok |-> FALSE]
             ELSE cleanup(Tail(objects), [fs EXCEPT ![added] = "none"], bad)
         ELSE IF fs[added] = "dir" THEN
             IF added \in bad THEN [fs |-> fs, ok |-> FALSE]
             ELSE cleanup(Tail(objects), [fs EXCEPT ![added] = "none"], bad)
         ELSE cleanup(Tail(objects), fs, bad)

\* ReturnErr that leaves without dropping the AlphaSdk.
ReturnErr_leak(e) ==
    /\ result' = e
    /\ bpc' = "returned"

\* An error leaves run through `?`: the AlphaSdk, when it exists, is dropped
\* on the way out.
ReturnErr(e) ==
    /\ result' = e
    /\ bpc' = IF sdk = "alive" THEN "drop" ELSE "returned"

\* build.rs:57: project::load_or_find_project succeeds; build.rs:59 calls
\* install_tools.
RunLoad ==
    /\ bpc = "start"
    /\ bpc' = "install"
    /\ InstallStart(1, BuildHash, FALSE)
    /\ UNCHANGED <<bfs, undeletable, bfs_start, sdk, container, created_files, runner, result,
                   cthread, to_delete, cleanup_runs, cleanup_result, teardowns>>
    /\ UNCHANGED mountVars

\* build.rs:57: load_or_find_project fails.
RunLoadFail ==
    /\ bpc = "start"
    /\ ReturnErr("Err:load")
    /\ UNCHANGED <<bfs, undeletable, bfs_start, sdk, container, created_files, runner,
                   cthread, to_delete, cleanup_runs, cleanup_result, teardowns>>
    /\ UNCHANGED <<toolsVars, mountVars>>

\* build.rs:59: install_tools is running.
RunInstall ==
    /\ bpc = "install"
    /\ InstallWork(1)
    /\ UNCHANGED <<buildVars, mountVars>>

\* build.rs:59: install_tools returned Ok.
RunInstalled ==
    /\ bpc = "install"
    /\ inv[1].pc = "done" /\ inv[1].result = "Ok"
    /\ InstallReturn(1)
    /\ bpc' = "sdk_new"
    /\ UNCHANGED <<bfs, undeletable, bfs_start, sdk, container, created_files, runner, result,
                   cthread, to_delete, cleanup_runs, cleanup_result, teardowns>>
    /\ UNCHANGED mountVars

\* build.rs:59: install_tools returned an error, `?` returns it.
RunInstallFail ==
    /\ bpc = "install"
    /\ inv[1].pc = "done" /\ inv[1].result = "Err"
    /\ InstallReturn(1)
    /\ ReturnErr("Err:install")
    /\ UNCHANGED <<bfs, undeletable, bfs_start, sdk, container, created_files, runner,
                   cthread, to_delete, cleanup_runs, cleanup_result, teardowns>>
    /\ UNCHANGED mountVars

\* build.rs:62, 135-156: AlphaSdk::new starts the container and creates
\* temp_dir/sdk_rpms.
SdkNew ==
    /\ bpc = "sdk_new"
    /\ container' = "running"
    /\ bfs' = [bfs EXCEPT !["sdk_rpms"] = "dir"]
    /\ sdk' = "alive"
    /\ created_files' = <<>>
    /\ bpc' = "copy_rpms"
    /\ UNCHANGED <<undeletable, bfs_start, runner, result, cthread, to_delete, cleanup_runs,
                   cleanup_result, teardowns>>
    /\ UNCHANGED <<toolsVars, mountVars>>

\* build.rs:136-149: no SDK is defined or DockerContainer::new fails (no
\* container), or creating temp_dir/sdk_rpms fails and the container that was
\* started is dropped again. There is no AlphaSdk.
SdkNewFail ==
    /\ bpc = "sdk_new"
    /\ \E started \in BOOLEAN :
         /\ container' = IF started THEN "removed" ELSE container
         /\ teardowns' = IF started THEN teardowns + 1 ELSE teardowns
    /\ ReturnErr("Err:sdk")
    /\ UNCHANGED <<bfs, undeletable, bfs_start, sdk, created_files, runner,
                   cthread, to_delete, cleanup_runs, cleanup_result>>
    /\ UNCHANGED <<toolsVars, mountVars>>

\* build.rs:63, 158-184: copy_rpms succeeds.
CopyRpms ==
    /\ bpc = "copy_rpms"
    /\ bpc' = "ensure_sbkeys"
    /\ UNCHANGED <<bfs, undeletable, bfs_start, sdk, container, created_files, runner, result,
                   cthread, to_delete, cleanup_runs, cleanup_result, teardowns>>
    /\ UNCHANGED <<toolsVars, mountVars>>

\* build.rs:63: copy_rpms fails.
CopyRpmsFail ==
    /\ bpc = "copy_rpms"
    /\ ReturnErr("Err:copy_rpms")
    /\ UNCHANGED <<bfs, undeletable, bfs_start, sdk, container, created_files, runner,
                   cthread, to_delete, cleanup_runs, cleanup_result, teardowns>>
    /\ UNCHANGED <<toolsVars, mountVars>>

\* build.rs:64, 94-109: ensure_sbkeys; a missing sbkeys directory is created
\* and the script copied into it. Nothing is pushed to created_files.
EnsureSbkeys ==
    /\ bpc = "ensure_sbkeys"
    /\ bfs' = IF bfs["sbkeys"] # "dir" THEN [bfs EXCEPT !["sbkeys"] = "dir"] ELSE bfs
    /\ bpc' = "ensure_models"
    /\ UNCHANGED <<undeletable, bfs_start, sdk, container, created_files, runner, result,
                   cthread, to_delete, cleanup_runs, cleanup_result, teardowns>>
    /\ UNCHANGED <<toolsVars, mountVars>>

\* build.rs:99-101: create_dir_all fails (nothing created) or
\* copy_sbkeys_script fails (the directory stays).
EnsureSbkeysFail ==
    /\ bpc = "ensure_sbkeys"
    /\ bfs["sbkeys"] # "dir"
    /\ \E made \in BOOLEAN :
         bfs' = IF made THEN [bfs EXCEPT !["sbkeys"] = "dir"] ELSE bfs
    /\ ReturnErr("Err:sbkeys")
    /\ UNCHANGED <<undeletable, bfs_start, sdk, container, created_files, runner,
                   cthread, to_delete, cleanup_runs, cleanup_result, teardowns>>
    /\ UNCHANGED <<toolsVars, mountVars>>

\* ensure_models_dir that records sources/models whether or not it made it.
EnsureModelsDir_always_records ==
    /\ bpc = "ensure_models"
    /\ bfs' = [bfs EXCEPT !["models"] = "dir"]
    /\ created_files' = Append(created_files, "models")
    /\ bpc' = "prepare"
    /\ UNCHANGED <<undeletable, bfs_start, sdk, container, runner, result,
                   cthread, to_delete, cleanup_runs, cleanup_result, teardowns>>
    /\ UNCHANGED <<toolsVars, mountVars>>

\* build.rs:65, 111-125: ensure_models_dir; a missing sources/models is
\* created and recorded in created_files.
EnsureModelsDir ==
    /\ bpc = "ensure_models"
    /\ IF bfs["models"] # "dir"
       THEN /\ bfs' = [bfs EXCEPT !["models"] = "dir"]
            /\ created_files' = Append(created_files, "models")
       ELSE UNCHANGED <<bfs, created_files>>
    /\ bpc' = "prepare"
    /\ UNCHANGED <<undeletable, bfs_start, sdk, container, runner, result,
                   cthread, to_delete, cleanup_runs, cleanup_result, teardowns>>
    /\ UNCHANGED <<toolsVars, mountVars>>

\* build.rs:117-119: create_dir_all fails.
EnsureModelsDirFail ==
    /\ bpc = "ensure_models"
    /\ bfs["models"] # "dir"
    /\ ReturnErr("Err:models")
    /\ UNCHANGED <<bfs, undeletable, bfs_start, sdk, container, created_files, runner,
                   cthread, to_delete, cleanup_runs, cleanup_result, teardowns>>
    /\ UNCHANGED <<toolsVars, mountVars>>

\* build.rs:67-85: CargoMake::new and find_go_modules succeed, the call is
\* assembled.
Prepare ==
    /\ bpc = "prepare"
    /\ bpc' = "exec"
    /\ UNCHANGED <<bfs, undeletable, bfs_start, sdk, container, created_files, runner, result,
                   cthread, to_delete, cleanup_runs, cleanup_result, teardowns>>
    /\ UNCHANGED <<toolsVars, mountVars>>

\* build.rs:73, 78: CargoMake::new or find_go_modules fails.
PrepareFail ==
    /\ bpc = "prepare"
    /\ ReturnErr("Err:prepare")
    /\ UNCHANGED <<bfs, undeletable, bfs_start, sdk, container, created_files, runner,
                   cthread, to_delete, cleanup_runs, cleanup_result, teardowns>>
    /\ UNCHANGED <<toolsVars, mountVars>>

\* build.rs:86-89: cargo make build runs and ends; res is returned. The build
\* may leave sources/models alone, remove it or put a file in its place.
Exec ==
    /\ bpc = "exec"
    /\ \E r \in {"Ok", "Err:build"}, k \in {bfs["models"], "none", "file"} :
         /\ runner' = r
         /\ result' = r
         /\ bfs' = [bfs EXCEPT !["models"] = k]
    /\ bpc' = "drop"
    /\ UNCHANGED <<undeletable, bfs_start, sdk, container, created_files,
                   cthread, to_delete, cleanup_runs, cleanup_result, teardowns>>
    /\ UNCHANGED <<toolsVars, mountVars>>

\* build.rs:210-222: Drop for AlphaSdk clones created_files and spawns the
\* thread that runs cleanup.
DropSpawn ==
    /\ bpc = "drop"
    /\ sdk = "alive"
    /\ to_delete' = created_files
    /\ cthread' = "running"
    /\ cleanup_runs' = cleanup_runs + 1
    /\ bpc' = "join"
    /\ UNCHANGED <<bfs, undeletable, bfs_start, sdk, container, created_files, runner, result,
                   cleanup_result, teardowns>>
    /\ UNCHANGED <<toolsVars, mountVars>>

\* build.rs:215-221: the thread runs cleanup; an error is logged.
CleanupThread ==
    /\ cthread = "running"
    /\ LET r == cleanup(to_delete, bfs, undeletable) IN
         /\ bfs' = r.fs
         /\ cleanup_result' = IF r.ok THEN "Ok" ELSE "Err"
    /\ cthread' = "finished"
    /\ UNCHANGED <<bpc, undeletable, bfs_start, sdk, container, created_files, runner, result,
                   to_delete, cleanup_runs, teardowns>>
    /\ UNCHANGED <<toolsVars, mountVars>>

\* DropJoin that makes a failed cleanup the result of run.
DropJoin_promote ==
    /\ bpc = "join"
    /\ cthread = "finished"
    /\ sdk' = "dropped"
    /\ bpc' = "drop_fields"
    /\ result' = IF cleanup_result = "Err" THEN "Err:cleanup" ELSE result
    /\ UNCHANGED <<bfs, undeletable, bfs_start, container, created_files, runner,
                   cthread, to_delete, cleanup_runs, cleanup_result, teardowns>>
    /\ UNCHANGED <<toolsVars, mountVars>>

\* Drop that does not join the thread it spawned.
DropJoin_detached ==
    /\ bpc = "join"
    /\ sdk' = "dropped"
    /\ bpc' = "drop_fields"
    /\ UNCHANGED <<bfs, undeletable, bfs_start, container, created_files, runner, result,
                   cthread, to_delete, cleanup_runs, cleanup_result, teardowns>>
    /\ UNCHANGED <<toolsVars, mountVars>>

\* build.rs:224-227: thread.join() returns whatever the thread did, and drop
\* ends.
DropJoin ==
    /\ bpc = "join"
    /\ cthread = "finished"
    /\ sdk' = "dropped"
    /\ bpc' = "drop_fields"
    /\ UNCHANGED <<bfs, undeletable, bfs_start, container, created_files, runner, result,
                   cthread, to_delete, cleanup_runs, cleanup_result, teardowns>>
    /\ UNCHANGED <<toolsVars, mountVars>>

\* After drop the fields of the AlphaSdk are dropped, the DockerContainer
\* (crate::docker) with them: the helper container is removed. Then run's
\* result reaches the caller.
ContainerTeardown ==
    /\ bpc = "drop_fields"
    /\ container' = "removed"
    /\ teardowns' = teardowns + 1
    /\ bpc' = "returned"
    /\ UNCHANGED <<bfs, undeletable, bfs_start, sdk, created_files, runner, result,
                   cthread, to_delete, cleanup_runs, cleanup_result>>
    /\ UNCHANGED <<toolsVars, mountVars>>

BuildNext ==
    \/ RunLoad /\ UNCHANGED restVars
    \/ RunLoadFail /\ UNCHANGED restVars
    \/ RunInstall /\ UNCHANGED restVars
    \/ RunInstalled /\ UNCHANGED restVars
    \/ RunInstallFail /\ UNCHANGED restVars
    \/ SdkNew /\ UNCHANGED restVars
    \/ SdkNewFail /\ UNCHANGED restVars
    \/ CopyRpms /\ UNCHANGED restVars
    \/ CopyRpmsFail /\ UNCHANGED restVars
    \/ EnsureSbkeys /\ UNCHANGED restVars
    \/ EnsureSbkeysFail /\ UNCHANGED restVars
    \/ EnsureModelsDir /\ UNCHANGED restVars
    \/ EnsureModelsDirFail /\ UNCHANGED restVars
    \/ Prepare /\ UNCHANGED restVars
    \/ PrepareFail /\ UNCHANGED restVars
    \/ Exec /\ UNCHANGED restVars
    \/ DropSpawn /\ UNCHANGED restVars
    \/ CleanupThread /\ UNCHANGED restVars
    \/ DropJoin /\ UNCHANGED restVars
    \/ ContainerTeardown /\ UNCHANGED restVars

\* --------------------------------------------------- cmd/exec.rs: Exec::run
\* A String is the sequence of its characters.

\* str::starts_with, as is_build_system_env uses it.
str_starts_with(s, prefix) ==
    Len(prefix) <= Len(s) /\ SubSeq(s, 1, Len(prefix)) = prefix

\* exec.rs:253-267, the exact names.
ENV_VARS ==
    { <<"A", "L", "L", "O", "W", "_", "M", "I", "S", "S", "I", "N", "G", "_", "K", "E", "Y">>,
      <<"A", "M", "I", "_", "D", "A", "T", "A", "_", "F", "I", "L", "E", "_", "S", "U", "F", "F", "I", "X">>,
      <<"B", "O", "O", "T", "_", "C", "O", "N", "F", "I", "G">>,
      <<"B", "O", "O", "T", "_", "C", "O", "N", "F", "I", "G", "_", "I", "N", "P", "U", "T">>,
      <<"C", "A", "R", "G", "O", "_", "M", "A", "K", "E", "_", "C", "A", "R", "G", "O", "_", "A", "R", "G", "S">>,
      <<"C", "A", "R", "G", "O", "_", "M", "A", "K", "E", "_", "D", "E", "F", "A", "U", "L", "T", "_", "T", "E", "S", "T", "S", "Y", "S", "_", "K", "U", "B", "E", "C", "O", "N", "F", "I", "G", "_", "P", "A", "T", "H">>,
      <<"C", "A", "R", "G", "O", "_", "M", "A", "K", "E", "_", "T", "E", "S", "T", "S", "Y", "S", "_", "A", "R", "G", "S">>,
      <<"C", "A", "R", "G", "O", "_", "M", "A", "K", "E", "_", "T", "E", "S", "T", "S", "Y", "S", "_", "K", "U", "B", "E", "C", "O", "N", "F", "I", "G", "_", "A", "R", "G">>,
      <<"M", "A", "R", "K", "_", "O", "V", "A", "_", "A", "S", "_", "T", "E", "M", "P", "L", "A", "T", "E">>,
      <<"R", "E", "L", "E", "A", "S", "E", "_", "S", "T", "A", "R", "T", "_", "T", "I", "M", "E">>,
      <<"S", "S", "M", "_", "D", "A", "T", "A", "_", "F", "I", "L", "E", "_", "S", "U", "F", "F", "I", "X">>,
      <<"V", "M", "W", "A", "R", "E", "_", "I", "M", "P", "O", "R", "T", "_", "S", "P", "E", "C", "_", "P", "A", "T", "H">>,
      <<"V", "M", "W", "A", "R", "E", "_", "V", "M", "_", "N", "A", "M", "E", "_", "D", "E", "F", "A", "U", "L", "T">> }

\* The prefixes compared for equality instead of starts_with.
is_build_system_env_eq(key) ==
    \/ key = <<"B", "O", "O", "T", "_", "C", "O", "N", "F", "I", "G">>
    \/ key = <<"B", "U", "I", "L", "D", "S", "Y", "S", "_">>
    \/ key = <<"P", "U", "B", "L", "I", "S", "H", "_">>
    \/ key = <<"R", "E", "P", "O", "_">>
    \/ key = <<"T", "E", "S", "T", "S", "Y", "S", "_">>
    \/ key \in ENV_VARS

\* The allow-list with the prefix CARGO_ added.
is_build_system_env_cargo(key) ==
    \/ str_starts_with(key, <<"B", "O", "O", "T", "_", "C", "O", "N", "F", "I", "G">>)
    \/ str_starts_with(key, <<"B", "U", "I", "L", "D", "S", "Y", "S", "_">>)
    \/ str_starts_with(key, <<"P", "U", "B", "L", "I", "S", "H", "_">>)
    \/ str_starts_with(key, <<"R", "E", "P", "O", "_">>)
    \/ str_starts_with(key, <<"T", "E", "S", "T", "S", "Y", "S", "_">>)
    \/ str_starts_with(key, <<"C", "A", "R", "G", "O", "_">>)
    \/ key \in ENV_VARS

\* exec.rs:269-284.
is_build_system_env(key) ==
    \/ str_starts_with(key, <<"B", "O", "O", "T", "_", "C", "O", "N", "F", "I", "G">>)
    \/ str_starts_with(key, <<"B", "U", "I", "L", "D", "S", "Y", "S", "_">>)
    \/ str_starts_with(key, <<"P", "U", "B", "L", "I", "S", "H", "_">>)
    \/ str_starts_with(key, <<"R", "E", "P", "O", "_">>)
    \/ str_starts_with(key, <<"T", "E", "S", "T", "S", "Y", "S", "_">>)
    \/ key \in ENV_VARS

\* exec.rs:108, format!("{}={}", key, val).
env_pair(key, val) == key \o <<"=">> \o val

\* The NAME of a NAME=VALUE token: what stands before its first '='.
name_of(token) ==
    IF \E i \in 1..Len(token) : token[i] = "="
    THEN LET i == CHOOSE j \in 1..Len(token) :
                     /\ token[j] = "="
                     /\ \A k \in 1..(j - 1) : token[k] # "="
         IN SubSeq(token, 1, i - 1)
    ELSE token

\* The host environment: std::env::vars() yields a sub-list of HostVars of at
\* most MaxEnv variables.
MaxEnv == 3

HostVars ==
    << [key |-> <<"B", "U", "I", "L", "D", "S", "Y", "S", "_", "A", "R", "C", "H">>,
       val |-> <<"x", "8", "6", "_", "6", "4">>],
      [key |-> <<"C", "A", "R", "G", "O", "_", "M", "A", "K", "E", "_", "D", "E", "F", "A", "U", "L", "T", "_", "T", "E", "S", "T", "S", "Y", "S", "_", "K", "U", "B", "E", "C", "O", "N", "F", "I", "G", "_", "P", "A", "T", "H">>,
       val |-> <<"k">>],
      [key |-> <<"P", "A", "T", "H">>,
       val |-> <<"/", "b", "i", "n">>],
      [key |-> <<"H", "O", "M", "E">>,
       val |-> <<"/", "r", "o", "o", "t">>],
      [key |-> <<"C", "A", "R", "G", "O", "_", "H", "O", "M", "E">>,
       val |-> <<"/", "h">>],
      [key |-> <<"B", "O", "O", "T", "_", "C", "O", "N", "F", "I", "G", "S">>,
       val |-> <<"b">>],
      [key |-> <<"B", "U", "I", "L", "D", "S", "Y", "S">>,
       val |-> <<"a", "=", "b">>],
      [key |-> <<"V", "M", "W", "A", "R", "E", "_", "V", "M", "_", "N", "A", "M", "E">>,
       val |-> <<"v">>],
      [key |-> <<"P", "U", "B", "L", "I", "S", "H", "_", "R", "E", "P", "O">>,
       val |-> <<"p">>],
      [key |-> <<"R", "E", "P", "O", "_", "N", "A", "M", "E">>,
       val |-> <<"r">>],
      [key |-> <<"T", "E", "S", "T", "S", "Y", "S", "_", "D", "I", "R">>,
       val |-> <<"t">>] >>

\* Exit codes a child process ends with.
MaxCode == 2

\* What running the command gives: it cannot be started, or it ends with
\* ExitStatus code() = Some(c) ({c}) or None ({}, killed by a signal) having
\* written stdout and stderr.
Outcomes ==
    {[started |-> FALSE, code |-> {}, stdout |-> "", stderr |-> ""]}
    \cup {[started |-> TRUE, code |-> {c}, stdout |-> "out",
           stderr |-> IF c = 0 THEN "" ELSE "err"] : c \in 0..MaxCode}
    \cup {[started |-> TRUE, code |-> {}, stdout |-> "", stderr |-> "killed"]}

LevelFilter == {"Off", "Error", "Warn", "Info", "Debug", "Trace"}

\* ExitStatus::success.
success(outcome) == outcome.code = {0}

\* ExitStatus::code().unwrap_or(1)
code_unwrap_or_1(outcome) ==
    IF outcome.code = {} THEN 1 ELSE CHOOSE c \in outcome.code : TRUE

NoResult ==
    [ok |-> TRUE, err |-> "none", mode |-> "none", code |-> {}, output |-> {}]

\* What exec returns: Ok(()) or the error with what its message holds.
ExecOk(mode) ==
    [ok |-> TRUE, err |-> "none", mode |-> mode, code |-> {}, output |-> {}]

ExecErr(err, mode, code, output) ==
    [ok |-> FALSE, err |-> err, mode |-> mode, code |-> code, output |-> output]

\* src/src/common.rs:6-20, exec of the older revision.
exec_old(outcome) ==
    IF ~outcome.started THEN ExecErr("start", "buffered", {}, {})
    ELSE IF success(outcome) THEN ExecOk("buffered")
    ELSE ExecErr("unsuccessful", "buffered", {},
                 {<<outcome.stdout, outcome.stderr>>})

\* exec that captures the output at Off and Error only.
exec_warn_streamed(level, outcome) ==
    IF level \in {"Off", "Error"} THEN
        IF ~outcome.started THEN ExecErr("start", "buffered", {}, {})
        ELSE IF success(outcome) THEN ExecOk("buffered")
        ELSE ExecErr("unsuccessful", "buffered", {code_unwrap_or_1(outcome)},
                     {<<outcome.stdout, outcome.stderr>>})
    ELSE
        IF ~outcome.started THEN ExecErr("start", "streamed", {}, {})
        ELSE IF success(outcome) THEN ExecOk("streamed")
        ELSE ExecErr("unsuccessful", "streamed", {code_unwrap_or_1(outcome)}, {})

\* twoliter/src/common.rs:8-44, exec.
exec(level, outcome) ==
    IF level \in {"Off", "Error", "Warn"} THEN
        IF ~outcome.started THEN ExecErr("start", "buffered", {}, {})
        ELSE IF success(outcome) THEN ExecOk("buffered")
        ELSE ExecErr("unsuccessful", "buffered", {code_unwrap_or_1(outcome)},
                     {<<outcome.stdout, outcome.stderr>>})
    ELSE
        IF ~outcome.started THEN ExecErr("start", "streamed", {}, {})
        ELSE IF success(outcome) THEN ExecOk("streamed")
        ELSE ExecErr("unsuccessful", "streamed", {code_unwrap_or_1(outcome)}, {})

NoChild == [started |-> FALSE, code |-> {}, stdout |-> "", stderr |-> ""]

ExecIdle ==
    /\ epc = "idle"
    /\ ecmd = "none"
    /\ rev = "twoliter"
    /\ cargo_home = <<>>
    /\ makefile_task = <<>>
    /\ additional_args = <<>>
    /\ arch = <<>>
    /\ henv = <<>>
    /\ args = <<>>
    /\ task_at = 0
    /\ log_level = "Warn"
    /\ child = NoChild
    /\ eres = NoResult
    /\ cli_exit = {}

\* `twoliter exec --cargo-home C build [args]` or `twoliter build variant
\* --arch A` has parsed its arguments.
ExecInit ==
    /\ epc = "start"
    /\ rev = "twoliter"
    /\ \/ /\ ecmd = "exec"
          /\ cargo_home \in {<<"/", "c">>, <<"/", "h">>}
          /\ additional_args \in {<<<<"-", "-", "f", "o", "o">>>>, <<<<"-", "-", "f", "o", "o">>, <<"-", "e">>>>}
          /\ arch = <<>>
       \/ /\ ecmd = "build"
          /\ cargo_home = <<>>
          /\ additional_args = <<>>
          /\ arch \in {<<"x", "8", "6", "_", "6", "4">>, <<"a", "a", "r", "c", "h", "6", "4">>}
    /\ makefile_task = <<"b", "u", "i", "l", "d">>
    /\ henv = <<>>
    /\ args = <<>>
    /\ task_at = 0
    /\ log_level = "Warn"
    /\ child = NoChild
    /\ eres = NoResult
    /\ cli_exit = {}

\* exec is about to be called on some command, in either revision.
CommandInit ==
    /\ epc = "spawn"
    /\ ecmd = "command"
    /\ rev \in {"twoliter", "src"}
    /\ cargo_home = <<>>
    /\ makefile_task = <<>>
    /\ additional_args = <<>>
    /\ arch = <<>>
    /\ henv = <<>>
    /\ args = <<>>
    /\ task_at = 0
    /\ log_level = "Warn"
    /\ child = NoChild
    /\ eres = NoResult
    /\ cli_exit = {}

\* exec.rs:72, the Makefile.toml in the temporary directory.
makefile == <<"/", "t", "m", "p", "/", "M", "a", "k", "e", "f", "i", "l", "e", ".", "t", "o", "m", "l">>

\* exec.rs:76, project_dir.display().to_string()
project_dir_display == <<"/", "p", "r", "o", "j">>

\* exec.rs:38-77: the project is found, the makefile is unpacked and the
\* vector starts.
ExecStart ==
    /\ epc = "start" /\ ecmd = "exec"
    /\ args' = <<<<"m", "a", "k", "e">>, <<"-", "-", "d", "i", "s", "a", "b", "l", "e", "-", "c", "h", "e", "c", "k", "-", "f", "o", "r", "-", "u", "p", "d", "a", "t", "e", "s">>,
                 <<"-", "-", "m", "a", "k", "e", "f", "i", "l", "e">>, makefile,
                 <<"-", "-", "c", "w", "d">>, project_dir_display>>
    /\ epc' = "env"
    /\ UNCHANGED <<ecmd, rev, cargo_home, makefile_task, additional_args, arch,
                   henv, task_at, log_level, child, eres, cli_exit>>

\* exec.rs:38-69 (build.rs:57-65): one of the `?` before the vector returns
\* an error.
ExecStartFail ==
    /\ epc = "start"
    /\ eres' = ExecErr("setup", "none", {}, {})
    /\ epc' = "returned"
    /\ UNCHANGED <<ecmd, rev, cargo_home, makefile_task, additional_args, arch,
                   henv, args, task_at, log_level, child, cli_exit>>

\* The loop without the allow-list.
EnvVar_unfiltered ==
    /\ epc = "env"
    /\ Len(henv) < MaxEnv
    /\ \E n \in 1..Len(HostVars) : LET hv == HostVars[n] IN
         /\ \A i \in 1..Len(henv), k \in n..Len(HostVars) : henv[i] # HostVars[k]
         /\ henv' = Append(henv, hv)
         /\ args' = args \o <<<<"-", "e">>, env_pair(hv.key, hv.val)>>
    /\ UNCHANGED <<epc, ecmd, rev, cargo_home, makefile_task, additional_args,
                   arch, task_at, log_level, child, eres, cli_exit>>

\* exec.rs:103-111: the next variable of std::env::vars().
EnvVar ==
    /\ epc = "env"
    /\ Len(henv) < MaxEnv
    /\ \E n \in 1..Len(HostVars) : LET hv == HostVars[n] IN
         /\ \A i \in 1..Len(henv), k \in n..Len(HostVars) : henv[i] # HostVars[k]
         /\ henv' = Append(henv, hv)
         /\ args' = IF is_build_system_env(hv.key)
                    THEN args \o <<<<"-", "e">>, env_pair(hv.key, hv.val)>>
                    ELSE args
    /\ UNCHANGED <<epc, ecmd, rev, cargo_home, makefile_task, additional_args,
                   arch, task_at, log_level, child, eres, cli_exit>>

\* The CARGO_HOME pair put before the host variables.
ExecPushTail_home_first ==
    /\ epc = "env" /\ ecmd = "exec"
    /\ args' = SubSeq(args, 1, 6)
                    \o <<<<"-", "e">>, env_pair(<<"C", "A", "R", "G", "O", "_", "H", "O", "M", "E">>, cargo_home)>>
                    \o SubSeq(args, 7, Len(args))
                    \o <<makefile_task>> \o additional_args
    /\ task_at' = Len(args) + 3
    /\ epc' = "spawn"
    /\ UNCHANGED <<ecmd, rev, cargo_home, makefile_task, additional_args, arch,
                   henv, log_level, child, eres, cli_exit>>

\* The additional arguments pushed before the task name.
ExecPushTail_args_first ==
    /\ epc = "env" /\ ecmd = "exec"
    /\ args' = args \o <<<<"-", "e">>, env_pair(<<"C", "A", "R", "G", "O", "_", "H", "O", "M", "E">>, cargo_home)>>
                    \o additional_args \o <<makefile_task>>
    /\ task_at' = Len(args) + 3 + Len(additional_args)
    /\ epc' = "spawn"
    /\ UNCHANGED <<ecmd, rev, cargo_home, makefile_task, additional_args, arch,
                   henv, log_level, child, eres, cli_exit>>

\* exec.rs:113-124: the loop is over; CARGO_HOME, the task and the
\* additional arguments are pushed.
ExecPushTail ==
    /\ epc = "env" /\ ecmd = "exec"
    /\ args' = args \o <<<<"-", "e">>, env_pair(<<"C", "A", "R", "G", "O", "_", "H", "O", "M", "E">>, cargo_home)>>
                    \o <<makefile_task>> \o additional_args
    /\ task_at' = Len(args) + 3
    /\ epc' = "spawn"
    /\ UNCHANGED <<ecmd, rev, cargo_home, makefile_task, additional_args, arch,
                   henv, log_level, child, eres, cli_exit>>

\* CargoMake::new (crate::cargo_make, spec 4.5): the vector starts with the
\* task-definition path and the working directory.
CargoMakeStart ==
    /\ epc = "start" /\ ecmd = "build"
    /\ args' = <<<<"-", "-", "m", "a", "k", "e", "f", "i", "l", "e">>, makefile, <<"-", "-", "c", "w", "d">>, project_dir_display>>
    /\ epc' = "env"
    /\ UNCHANGED <<ecmd, rev, cargo_home, makefile_task, additional_args, arch,
                   henv, task_at, log_level, child, eres, cli_exit>>

\* build.rs:67-87 with CargoMake::env (crate::cargo_make, spec 4.4): the
\* overrides are appended behind the host variables, then the task.
CargoMakeEnvs ==
    /\ epc = "env" /\ ecmd = "build"
    /\ \E lookaside_cache \in
            {<<>>, <<<<"-", "e">>, env_pair(<<"B", "U", "I", "L", "D", "S", "Y", "S", "_", "L", "O", "O", "K", "A", "S", "I", "D", "E", "_", "C", "A", "C", "H", "E">>, <<"l">>)>>} :
         /\ args' = args
                 \o <<<<"-", "e">>, env_pair(<<"T", "W", "O", "L", "I", "T", "E", "R", "_", "T", "O", "O", "L", "S", "_", "D", "I", "R">>, <<"/", "t">>)>>
                 \o <<<<"-", "e">>, env_pair(<<"B", "U", "I", "L", "D", "S", "Y", "S", "_", "A", "R", "C", "H">>, arch)>>
                 \o <<<<"-", "e">>, env_pair(<<"B", "U", "I", "L", "D", "S", "Y", "S", "_", "V", "A", "R", "I", "A", "N", "T">>, <<"v">>)>>
                 \o <<<<"-", "e">>, env_pair(<<"B", "U", "I", "L", "D", "S", "Y", "S", "_", "V", "E", "R", "S", "I", "O", "N", "_", "I", "M", "A", "G", "E">>, <<"1">>)>>
                 \o <<<<"-", "e">>, env_pair(<<"G", "O", "_", "M", "O", "D", "U", "L", "E", "S">>, <<"g">>)>>
                 \o <<<<"-", "e">>, env_pair(<<"B", "U", "I", "L", "D", "S", "Y", "S", "_", "U", "P", "S", "T", "R", "E", "A", "M", "_", "S", "O", "U", "R", "C", "E", "_", "F", "A", "L", "L", "B", "A", "C", "K">>,
                                       <<"f", "a", "l", "s", "e">>)>>
                 \o lookaside_cache
                 \o <<makefile_task>>
         /\ task_at' = Len(args) + 13 + Len(lookaside_cache)
    /\ epc' = "spawn"
    /\ UNCHANGED <<ecmd, rev, cargo_home, makefile_task, additional_args, arch,
                   henv, log_level, child, eres, cli_exit>>

\* exec.rs:126 (commands.rs:94): exec runs the command; log::max_level() is
\* what init_logger set.
ExecCommand ==
    /\ epc = "spawn"
    /\ \E level \in LevelFilter, outcome \in Outcomes :
         /\ log_level' = level
         /\ child' = outcome
         /\ eres' = IF rev = "twoliter" THEN exec(level, outcome)
                    ELSE exec_old(outcome)
    /\ epc' = "returned"
    /\ UNCHANGED <<ecmd, rev, cargo_home, makefile_task, additional_args, arch,
                   henv, args, task_at, cli_exit>>

\* cmd/mod.rs:37-42 hands the Result to main (main.rs), which ends the
\* process: success for Ok, failure (1) for an Err.
Main ==
    /\ epc = "returned"
    /\ cli_exit' = {IF eres.ok THEN 0 ELSE 1}
    /\ epc' = "exited"
    /\ UNCHANGED <<ecmd, rev, cargo_home, makefile_task, additional_args, arch,
                   henv, args, task_at, log_level, child, eres>>

ExecNext ==
    \/ ExecStart /\ UNCHANGED <<toolsVars, buildVars, mountVars, scanVars, uriVars, provVars, conc>>
    \/ ExecStartFail /\ UNCHANGED <<toolsVars, buildVars, mountVars, scanVars, uriVars, provVars, conc>>
    \/ EnvVar /\ UNCHANGED <<toolsVars, buildVars, mountVars, scanVars, uriVars, provVars, conc>>
    \/ ExecPushTail /\ UNCHANGED <<toolsVars, buildVars, mountVars, scanVars, uriVars, provVars, conc>>
    \/ CargoMakeStart /\ UNCHANGED <<toolsVars, buildVars, mountVars, scanVars, uriVars, provVars, conc>>
    \/ CargoMakeEnvs /\ UNCHANGED <<toolsVars, buildVars, mountVars, scanVars, uriVars, provVars, conc>>
    \/ ExecCommand /\ UNCHANGED <<toolsVars, buildVars, mountVars, scanVars, uriVars, provVars, conc>>
    \/ Main /\ UNCHANGED <<toolsVars, buildVars, mountVars, scanVars, uriVars, provVars, conc>>

CommandNext ==
    \/ ExecCommand /\ UNCHANGED <<toolsVars, buildVars, mountVars, scanVars, uriVars, provVars, conc>>
    \/ Main /\ UNCHANGED <<toolsVars, buildVars, mountVars, scanVars, uriVars, provVars, conc>>


\* ------------------------------------- cmd/exec.rs: _find_testsys_test_path
\* Iterator::skip_while from position `from` on, skipping what is not in
\* `stop`: the position of the first element that is in `stop`, Len + 1 if
\* there is none.
skip_while(seq, from, stop) ==
    IF \E i \in from..Len(seq) : seq[i] \in stop
    THEN CHOOSE i \in from..Len(seq) :
             /\ seq[i] \in stop
             /\ \A j \in from..(i - 1) : seq[j] \notin stop
    ELSE Len(seq) + 1

\* exec.rs:327, file_arg.split("=").skip(1).next(): the piece between the
\* first '=' and the next one (or the end); None ({}) without a '='.
split_eq_second(s) ==
    LET eq1 == skip_while(s, 1, {"="}) IN
    IF eq1 > Len(s) THEN {}
    ELSE LET eq2 == skip_while(s, eq1 + 1, {"="})
         IN {SubSeq(s, eq1 + 1, eq2 - 1)}

\* exec.rs:295-340, _find_testsys_test_path: None is {}, Some(path) is {path}.
find_testsys_test_path(iter) ==
    LET testsys == skip_while(iter, 1, {<<"t", "e", "s", "t", "s", "y", "s">>})
        test == testsys + 1
    IN
    IF test > Len(iter) \/ iter[test] # <<"t", "e", "s", "t">> THEN {}
    ELSE
      LET f == skip_while(iter, test + 1,
                  {iter[i] : i \in {k \in 1..Len(iter) :
                       \/ str_starts_with(iter[k], <<"-", "f">>)
                       \/ str_starts_with(iter[k], <<"-", "-", "f", "i", "l", "e">>)}})
      IN
      IF f > Len(iter) THEN {}
      ELSE IF str_starts_with(iter[f], <<"-", "f", "=">>) \/ str_starts_with(iter[f], <<"-", "-", "f", "i", "l", "e", "=">>)
      THEN LET s == split_eq_second(iter[f]) IN
           IF s # {} /\ s # {<<>>} THEN s ELSE {}
      ELSE IF f + 1 > Len(iter) THEN {} ELSE {iter[f + 1]}

\* The arguments the scan is tried on: at most MaxArgs of these tokens (the
\* last one is the empty argument, as in `-f ""`).
MaxArgs == 4

Tokens ==
    { <<"t", "e", "s", "t", "s", "y", "s">>, <<"t", "e", "s", "t">>, <<"-", "f">>, <<"-", "-", "f", "i", "l", "e">>, <<"-", "f", "=", "/", "p">>, <<"-", "-", "f", "i", "l", "e", "=", "/", "p">>,
      <<"-", "f", "=">>, <<"-", "-", "f", "i", "l", "e", "=">>, <<"-", "f", "=", "a", "=", "b">>, <<"-", "f", "x">>, <<"/", "p">>, <<>> }

ScanIdle ==
    /\ spc = "idle"
    /\ sargs = <<>>
    /\ sfound = {}

ScanInit ==
    /\ spc = "args"
    /\ sargs = <<>>
    /\ sfound = {}

\* The command line has one more argument.
ScanArg ==
    /\ spc = "args"
    /\ Len(sargs) < MaxArgs
    /\ \E t \in Tokens : sargs' = Append(sargs, t)
    /\ UNCHANGED <<spc, sfound>>

\* exec.rs:165: find_testsys_test_path(env::args()).
ScanRun ==
    /\ spc = "args"
    /\ sfound' = find_testsys_test_path(sargs)
    /\ spc' = "done"
    /\ UNCHANGED sargs

ScanNext ==
    \/ ScanArg /\ UNCHANGED <<toolsVars, buildVars, mountVars, execVars, uriVars, provVars, conc>>
    \/ ScanRun /\ UNCHANGED <<toolsVars, buildVars, mountVars, execVars, uriVars, provVars, conc>>

\* ---------------------------------------------- docker/image.rs: uri()
\* image.rs:28-34, ImageUri::uri. An Option is {} or {value}.
ImageUri_uri(self) ==
    IF self.registry = {} THEN self.repo \o <<":">> \o self.tag
    ELSE (CHOOSE r \in self.registry : TRUE) \o <<"/">> \o self.repo
             \o <<":">> \o self.tag

\* uri() that leaves the architecture out.
ImageArchUri_uri_no_arch(self) ==
    IF self.registry = {} THEN self.name \o <<":">> \o self.tag
    ELSE (CHOOSE r \in self.registry : TRUE) \o <<"/">> \o self.name
             \o <<":">> \o self.tag

\* image.rs:70-77, ImageArchUri::uri.
ImageArchUri_uri(self) ==
    IF self.registry = {} THEN
        self.name \o <<"-">> \o self.arch \o <<":">> \o self.tag
    ELSE (CHOOSE r \in self.registry : TRUE) \o <<"/">> \o self.name
             \o <<"-">> \o self.arch \o <<":">> \o self.tag

\* image.rs:18-26, ImageUri::new.
ImageUri_new(registry, repo, tag) ==
    [kind |-> "ImageUri", registry |-> registry, repo |-> repo, tag |-> tag]

\* image.rs:55-66, ImageArchUri::new.
ImageArchUri_new(registry, name, architecture, tag) ==
    [kind |-> "ImageArchUri", registry |-> registry, name |-> name,
     arch |-> architecture, tag |-> tag]

\* docker/mod.rs:9-13
DEFAULT_REGISTRY == <<"p", "u", "b", "l", "i", "c", ".", "e", "c", "r", ".", "a", "w", "s", "/", "b", "o", "t", "t", "l", "e", "r", "o", "c", "k", "e", "t">>
DEFAULT_SDK_NAME == <<"b", "o", "t", "t", "l", "e", "r", "o", "c", "k", "e", "t", "-", "s", "d", "k">>
DEFAULT_SDK_VERSION == <<"v", "0", ".", "3", "2", ".", "0">>

\* common.rs:1
DEFAULT_ARCH == <<"x", "8", "6", "_", "6", "4">>

\* docker/mod.rs:15-22
default_sdk ==
    ImageArchUri_new({DEFAULT_REGISTRY}, DEFAULT_SDK_NAME, DEFAULT_ARCH,
                     DEFAULT_SDK_VERSION)

\* The field values the locators are built from.
Registries == {{}, {<<"r", "e", "g">>}, {DEFAULT_REGISTRY}, {<<>>}}
Names == {<<"s", "d", "k">>, <<"r", "e", "p", "o">>, DEFAULT_SDK_NAME}
Archs == {<<"x", "8", "6", "_", "6", "4">>, <<"a", "a", "r", "c", "h", "6", "4">>}
Tags == {<<"v", "1">>, <<"l", "a", "t", "e", "s", "t">>}

NoLocator == ImageUri_new({}, <<>>, <<>>)

UriIdle ==
    /\ upc = "idle"
    /\ uloc = NoLocator
    /\ urendered = <<>>

\* A locator has been constructed with new.
UriInit ==
    /\ upc = "new"
    /\ uloc \in {ImageUri_new(r, n, t) : r \in Registries, n \in Names, t \in Tags}
           \cup {ImageArchUri_new(x[1], x[2], a, t) :
                    x \in Registries \X Names, a \in Archs, t \in Tags}
    /\ urendered = <<>>

\* image.rs:28-34: uri() is called on an ImageUri.
ImageUriCall ==
    /\ upc = "new" /\ uloc.kind = "ImageUri"
    /\ urendered' = ImageUri_uri(uloc)
    /\ upc' = "done"
    /\ UNCHANGED uloc

\* image.rs:70-77: uri() is called on an ImageArchUri.
ImageArchUriCall ==
    /\ upc = "new" /\ uloc.kind = "ImageArchUri"
    /\ urendered' = ImageArchUri_uri(uloc)
    /\ upc' = "done"
    /\ UNCHANGED uloc

UriNext ==
    \/ ImageUriCall /\ UNCHANGED <<toolsVars, buildVars, mountVars, execVars, scanVars, provVars, conc>>
    \/ ImageArchUriCall /\ UNCHANGED <<toolsVars, buildVars, mountVars, execVars, scanVars, provVars, conc>>

\* ------------- src/cmd/build.rs and docker/twoliter.rs: image provisioning
\* twoliter.rs:15-45: the steps before docker build, in order, and how a
\* failure of each ends: `?` returns an error, unwrap() panics.
ProvSteps ==
    <<"tempdir", "create_dir_all", "write_tarball", "open_tarball", "unpack",
      "remove_tarball", "write_dockerfile", "docker_build">>

ProvFailure(step) ==
    IF step \in {"write_tarball", "open_tarball", "unpack", "remove_tarball"}
    THEN "panic" ELSE "Err"

NoSdk == ImageArchUri_new({}, <<>>, <<>>, <<>>)

ProvIdle ==
    /\ ppc = 0
    /\ psdk = NoSdk
    /\ pbase = <<>>
    /\ pimage = {}
    /\ presult = "none"
    /\ pexists = FALSE
    /\ pbuilds = 0

\* `twoliter build variant --arch A` of src/cmd/build.rs has parsed its
\* arguments; an earlier invocation may have left the image behind.
ProvInit ==
    /\ ppc = 0
    /\ psdk = NoSdk
    /\ pbase = <<>>
    /\ pimage = {}
    /\ presult = "none"
    /\ pexists \in BOOLEAN
    /\ pbuilds = 0

\* src/cmd/build.rs:36-47: the project is loaded; its sdk, or the default
\* one, is specialised for the architecture and handed to
\* create_twoliter_image_if_not_exists.
ProvLoad ==
    /\ ppc = 0 /\ presult = "none"
    /\ \E sdk_opt \in {{}, {ImageArchUri_new({<<"r", "e", "g">>}, <<"s", "d", "k">>, DEFAULT_ARCH, <<"v", "1">>)},
                           {ImageArchUri_new({}, <<"s", "d", "k">>, DEFAULT_ARCH, <<"v", "1">>)}},
          a \in Archs :
         LET s == IF sdk_opt = {} THEN default_sdk ELSE CHOOSE x \in sdk_opt : TRUE
         IN psdk' = ImageArchUri_new(s.registry, s.name, a, s.tag)
    /\ ppc' = 1
    /\ UNCHANGED <<pbase, pimage, presult, pexists, pbuilds>>

\* src/cmd/build.rs:36-43: the project cannot be loaded.
ProvLoadFail ==
    /\ ppc = 0 /\ presult = "none"
    /\ presult' = "Err"
    /\ UNCHANGED <<ppc, psdk, pbase, pimage, pexists, pbuilds>>

\* twoliter.rs:15-38: the next step before docker build succeeds.
ProvStepOk ==
    /\ ppc \in 1..(Len(ProvSteps) - 1) /\ presult = "none"
    /\ ppc' = ppc + 1
    /\ UNCHANGED <<psdk, pbase, pimage, presult, pexists, pbuilds>>

\* twoliter.rs:15-38: the next step before docker build fails.
ProvStepFail ==
    /\ ppc \in 1..(Len(ProvSteps) - 1) /\ presult = "none"
    /\ presult' = ProvFailure(ProvSteps[ppc])
    /\ UNCHANGED <<ppc, psdk, pbase, pimage, pexists, pbuilds>>

\* Provisioning that exits early when the image exists.
ProvDockerBuild_if_not_exists ==
    /\ ppc = Len(ProvSteps) /\ presult = "none"
    /\ IF pexists
       THEN /\ pimage' = {ImageUri_new({}, <<"t", "w", "o", "l", "i", "t", "e", "r">>, <<"l", "a", "t", "e", "s", "t">>)}
            /\ presult' = "Ok"
            /\ UNCHANGED <<pbase, pbuilds>>
       ELSE /\ pbase' = ImageArchUri_uri(psdk)
            /\ pbuilds' = pbuilds + 1
            /\ \E outcome \in Outcomes, level \in LevelFilter :
                 IF exec(level, outcome).ok
                 THEN /\ pimage' = {ImageUri_new({}, <<"t", "w", "o", "l", "i", "t", "e", "r">>, <<"l", "a", "t", "e", "s", "t">>)}
                      /\ presult' = "Ok"
                 ELSE /\ pimage' = {}
                      /\ presult' = "Err"
    /\ UNCHANGED <<ppc, psdk, pexists>>

\* twoliter.rs:40-55: docker build runs with BASE = sdk.uri() and the tag
\* twoliter:latest, whether or not the tag exists; Ok(image_uri) if it
\* succeeds.
ProvDockerBuild ==
    /\ ppc = Len(ProvSteps) /\ presult = "none"
    /\ pbase' = ImageArchUri_uri(psdk)
    /\ pbuilds' = pbuilds + 1
    /\ \E outcome \in Outcomes, level \in LevelFilter :
         IF exec(level, outcome).ok
         THEN /\ pimage' = {ImageUri_new({}, <<"t", "w", "o", "l", "i", "t", "e", "r">>, <<"l", "a", "t", "e", "s", "t">>)}
              /\ presult' = "Ok"
         ELSE /\ pimage' = {}
              /\ presult' = "Err"
    /\ UNCHANGED <<ppc, psdk, pexists>>

ProvNext ==
    \/ ProvLoad /\ UNCHANGED <<toolsVars, buildVars, mountVars, execVars, scanVars, uriVars, conc>>
    \/ ProvLoadFail /\ UNCHANGED <<toolsVars, buildVars, mountVars, execVars, scanVars, uriVars, conc>>
    \/ ProvStepOk /\ UNCHANGED <<toolsVars, buildVars, mountVars, execVars, scanVars, uriVars, conc>>
    \/ ProvStepFail /\ UNCHANGED <<toolsVars, buildVars, mountVars, execVars, scanVars, uriVars, conc>>
    \/ ProvDockerBuild /\ UNCHANGED <<toolsVars, buildVars, mountVars, execVars, scanVars, uriVars, conc>>


\* ------------------------------- tools.rs: install_tools, run concurrently
\* Nothing in install_tools takes a lock: an invocation starts and takes its
\* steps whatever the others are doing.
ConcIdle == conc = [started |-> 0, overlap |-> FALSE, failed |-> FALSE]

\* install_tools is called (not forced), for the p-th time, while any number
\* of the earlier invocations are under way.
ConcStart ==
    \E p \in Procs, h \in Hashes :
        /\ p = conc.started + 1
        /\ InstallStart(p, h, FALSE)
        /\ conc' = [conc EXCEPT !.started = p,
                                !.overlap = @ \/ \E q \in Procs \ {p} : inv[q].pc # "idle"]

\* One invocation takes its next step.
ConcStep(p, step) ==
    /\ step
    /\ conc' = [conc EXCEPT !.failed = @ \/ inv'[p].result = "Err"]

ConcNext ==
    \/ ConcStart /\ UNCHANGED <<buildVars, mountVars, execVars, scanVars, uriVars, provVars>>
    \/ \E p \in Procs : ConcStep(p, InstallCheck(p)) /\ UNCHANGED <<buildVars, mountVars, execVars, scanVars, uriVars, provVars>>
    \/ \E p \in Procs : ConcStep(p, InstallCreateDir(p)) /\ UNCHANGED <<buildVars, mountVars, execVars, scanVars, uriVars, provVars>>
    \/ \E p \in Procs : ConcStep(p, InstallCreateDirFail(p)) /\ UNCHANGED <<buildVars, mountVars, execVars, scanVars, uriVars, provVars>>
    \/ \E p \in Procs : ConcStep(p, InstallUnpack(p)) /\ UNCHANGED <<buildVars, mountVars, execVars, scanVars, uriVars, provVars>>
    \/ \E p \in Procs : ConcStep(p, InstallUnpackFail(p)) /\ UNCHANGED <<buildVars, mountVars, execVars, scanVars, uriVars, provVars>>
    \/ \E p \in Procs : ConcStep(p, InstallWrite(p)) /\ UNCHANGED <<buildVars, mountVars, execVars, scanVars, uriVars, provVars>>
    \/ \E p \in Procs : ConcStep(p, InstallWriteFail(p)) /\ UNCHANGED <<buildVars, mountVars, execVars, scanVars, uriVars, provVars>>
    \/ \E p \in Procs : ConcStep(p, InstallReturn(p)) /\ UNCHANGED <<buildVars, mountVars, execVars, scanVars, uriVars, provVars>>


\* -------------------------------------------------------- specifications
RestIdle == ExecIdle /\ ScanIdle /\ UriIdle /\ ProvIdle /\ ConcIdle

InitBuild == ToolsInit /\ BuildInit /\ MountsIdle /\ RestIdle

SpecBuild == InitBuild /\ [][BuildNext]_vars

InitMounts == ToolsInit /\ BuildIdle /\ MountsInit /\ RestIdle

SpecMounts == InitMounts /\ [][MountsNext]_vars

InitExec ==
    ToolsInit /\ BuildIdle /\ MountsIdle /\ ExecInit /\ ScanIdle /\ UriIdle /\ ProvIdle
        /\ ConcIdle

SpecExec == InitExec /\ [][ExecNext]_vars

InitCommand ==
    ToolsInit /\ BuildIdle /\ MountsIdle /\ CommandInit /\ ScanIdle /\ UriIdle /\ ProvIdle
        /\ ConcIdle

SpecCommand == InitCommand /\ [][CommandNext]_vars

InitScan ==
    ToolsInit /\ BuildIdle /\ MountsIdle /\ ExecIdle /\ ScanInit /\ UriIdle /\ ProvIdle
        /\ ConcIdle

SpecScan == InitScan /\ [][ScanNext]_vars

InitUri ==
    ToolsInit /\ BuildIdle /\ MountsIdle /\ ExecIdle /\ ScanIdle /\ UriInit /\ ProvIdle
        /\ ConcIdle

SpecUri == InitUri /\ [][UriNext]_vars

InitProv ==
    ToolsInit /\ BuildIdle /\ MountsIdle /\ ExecIdle /\ ScanIdle /\ UriIdle /\ ProvInit
        /\ ConcIdle

SpecProv == InitProv /\ [][ProvNext]_vars

InitConc == ToolsInit /\ BuildIdle /\ MountsIdle /\ RestIdle

SpecConc == InitConc /\ [][ConcNext]_vars

Init == ToolsInit /\ BuildIdle /\ MountsIdle /\ RestIdle

Next ==
    \/ SeqStart /\ UNCHANGED <<buildVars, mountVars, restVars>>
    \/ \E p \in Procs : InstallCheck(p) /\ UNCHANGED <<buildVars, mountVars, restVars>>
    \/ \E p \in Procs : InstallCreateDir(p) /\ UNCHANGED <<buildVars, mountVars, restVars>>
    \/ \E p \in Procs : InstallCreateDirFail(p) /\ UNCHANGED <<buildVars, mountVars, restVars>>
    \/ \E p \in Procs : InstallUnpack(p) /\ UNCHANGED <<buildVars, mountVars, restVars>>
    \/ \E p \in Procs : InstallUnpackFail(p) /\ UNCHANGED <<buildVars, mountVars, restVars>>
    \/ \E p \in Procs : InstallWrite(p) /\ UNCHANGED <<buildVars, mountVars, restVars>>
    \/ \E p \in Procs : InstallWriteFail(p) /\ UNCHANGED <<buildVars, mountVars, restVars>>
    \/ \E p \in Procs : InstallReturn(p) /\ UNCHANGED <<buildVars, mountVars, restVars>>

Spec == Init /\ [][Next]_vars

\* ---------------------------------------------------------- claims: tools
\* C1 (as claimed): when the marker file (tools_dir/installed, the file
\* install_tools writes the hash to) holds exactly the hash of the running
\* binary at the start of install_tools(dir, force=false), the call unpacks
\* nothing, writes no member and no marker, and returns Ok.
C1_NoWritesWhenMarkerCurrent ==
    \A p \in Procs :
        (inv[p].pc # "idle" /\ ~inv[p].force /\ inv[p].before = inv[p].hash)
            => /\ ~inv[p].unpacked
               /\ ~inv[p].wrote_member
               /\ ~inv[p].wrote_marker
               /\ inv[p].pc \notin {"create_dir", "unpack", "write"}
               /\ (inv[p].pc = "done" => inv[p].result = "Ok")

\* C2 (as claimed): an install_tools(dir, force=false) that immediately follows
\* a successful install_tools(dir, force=false) of the same bundle hash does
\* not unpack and does not write the marker.
C2_SecondInstallIsNoOp ==
    \A p \in Procs :
        (/\ inv[p].pc # "idle" /\ ~inv[p].force
         /\ inv[p].prev.valid /\ inv[p].prev.ok /\ ~inv[p].prev.force
         /\ inv[p].prev.hash = inv[p].hash)
            => /\ ~inv[p].unpacked
               /\ ~inv[p].wrote_marker
               /\ inv[p].pc \notin {"create_dir", "unpack", "write"}

\* C3: when the marker holds something else than the hash of the running
\* binary at the start of install_tools(dir, force=false), a call that returns
\* Ok has unpacked the archive and the marker then holds the binary's hash.
C3_StaleMarkerReinstalls ==
    \A p \in Procs :
        (/\ inv[p].pc = "done" /\ ~inv[p].force
         /\ inv[p].before # inv[p].hash /\ inv[p].result = "Ok")
            => /\ inv[p].unpacked
               /\ \A m \in Members : members[m] = inv[p].hash
               /\ tfiles[installed] = inv[p].hash

C3_Witness ==
    \E p \in Procs :
        /\ inv[p].pc = "done" /\ ~inv[p].force /\ inv[p].result = "Ok"
        /\ inv[p].before \in Hashes /\ inv[p].before # inv[p].hash
        /\ inv[p].unpacked

\* C4: the marker is written only after a successful unpack; an invocation in
\* which create_dir_all or the unpack failed returns Err and leaves the marker
\* with the content it had before the call.
C4_MarkerOnlyAfterUnpack ==
    \A p \in Procs :
        /\ inv[p].wrote_marker => inv[p].unpacked
        /\ inv[p].failed \in {"create_dir", "unpack"}
              => /\ inv[p].pc = "done"
                 /\ inv[p].result = "Err"
                 /\ ~inv[p].wrote_marker
                 /\ tfiles[installed] = inv[p].before

C4_Witness ==
    \E p \in Procs :
        /\ inv[p].pc = "done" /\ inv[p].failed = "unpack"
        /\ inv[p].wrote_member
        /\ inv[p].before \in Hashes /\ inv[p].before # inv[p].hash

C6_CleanupOnEveryPath ==
    (bpc = "returned" /\ sdk # "none")
        => /\ sdk = "dropped"
           /\ cleanup_runs = 1
           /\ cthread = "finished"
           /\ cleanup_result \in {"Ok", "Err"}

C6_Witness ==
    /\ bpc = "returned"
    /\ result = "Err:prepare"
    /\ created_files = <<"models">>
    /\ cleanup_runs = 1
    /\ bfs["models"] = "none"

\* C7: when the task runner was invoked, run returns exactly its result,
\* whether cleanup failed or not.
C7_CleanupFailureOnlyLogged ==
    (bpc = "returned" /\ runner # "none") => result = runner

C7_Witness ==
    /\ bpc = "returned"
    /\ runner = "Ok"
    /\ result = "Ok"
    /\ cleanup_result = "Err"

\* --------------------------------------------------------- claims: mounts
\* C8: the mount set never holds two different mounts whose sources are the
\* same path once links are followed.
C8_NoDuplicateSource ==
    \A m1 \in mounts, m2 \in mounts :
        resolve(m1.source) = resolve(m2.source) => m1 = m2

\* /ext/f was mounted, then the same file declared as /lnk/f added nothing.
C8_Witness ==
    /\ mpc = "done"
    /\ ladd.valid /\ ladd.ok
    /\ ladd.path = <<"lnk", "f">>
    /\ ladd.existed
    /\ ladd.added = {}
    /\ Mount_new(<<"ext", "f">>) \in mounts
    /\ Mount_new(project_dir) \in mounts

\* C9: add for a FILE path that does not exist, is outside the project
\* directory and has create = true: when it returns Ok the parent directory
\* exists, only it (and its missing ancestors) was created, the file itself
\* was not, and the mount of the canonicalized parent is in the set; it fails
\* only when the directory cannot be created, and then adds nothing.
C9_FileCreatesParent ==
    (ladd.valid /\ ladd.type = "FILE" /\ ladd.create /\ ~ladd.existed /\ ~ladd.in_project)
        => LET parent == parent_of(ladd.path) IN
           IF ladd.ok
           THEN /\ exists(mfs, parent)
                /\ ~exists(mfs, ladd.path)
                /\ Mount_new(resolve(parent)) \in mounts
                /\ ladd.added \subseteq {Mount_new(resolve(parent))}
                /\ \A n \in ladd.created :
                      starts_with(resolve(parent), n) /\ mfs[n] = "dir"
           ELSE /\ ladd.err = "create_dir_all"
                /\ ladd.created = {}
                /\ ladd.added = {}

C9_Witness ==
    /\ ladd.valid /\ ladd.type = "FILE" /\ ladd.create /\ ~ladd.existed /\ ~ladd.in_project
    /\ ladd.ok
    /\ ladd.path = <<"new", "f">>
    /\ ladd.created = {<<"new">>}
    /\ ladd.added = {Mount_new(<<"new">>)}

\* C10: add for a path that does not exist, is outside the project directory
\* and has create = false fails in canonicalize, creates nothing and adds no
\* mount; prepare_mounts fails with it.
C10_NoCreateCannotResolve ==
    (ladd.valid /\ ~ladd.create /\ ~ladd.existed /\ ~ladd.in_project)
        => /\ ~ladd.ok
           /\ ladd.err = "canonicalize"
           /\ ladd.created = {}
           /\ ladd.added = {}
           /\ mpc = "failed"

C10_Witness ==
    /\ ladd.valid /\ ~ladd.create /\ ~ladd.existed /\ ~ladd.in_project
    /\ ladd.path = <<"new", "f">>
    /\ mpc = "failed"
    /\ mfs[<<"new">>] = "none"

C12_HostVarPassedIffAllowed ==
    LET prefixes == { <<"B", "O", "O", "T", "_", "C", "O", "N", "F", "I", "G">>, <<"B", "U", "I", "L", "D", "S", "Y", "S", "_">>, <<"P", "U", "B", "L", "I", "S", "H", "_">>, <<"R", "E", "P", "O", "_">>,
                      <<"T", "E", "S", "T", "S", "Y", "S", "_">> }
        exact == { <<"A", "L", "L", "O", "W", "_", "M", "I", "S", "S", "I", "N", "G", "_", "K", "E", "Y">>,
                   <<"A", "M", "I", "_", "D", "A", "T", "A", "_", "F", "I", "L", "E", "_", "S", "U", "F", "F", "I", "X">>,
                   <<"B", "O", "O", "T", "_", "C", "O", "N", "F", "I", "G">>,
                   <<"B", "O", "O", "T", "_", "C", "O", "N", "F", "I", "G", "_", "I", "N", "P", "U", "T">>,
                   <<"C", "A", "R", "G", "O", "_", "M", "A", "K", "E", "_", "C", "A", "R", "G", "O", "_", "A", "R", "G", "S">>,
                   <<"C", "A", "R", "G", "O", "_", "M", "A", "K", "E", "_", "D", "E", "F", "A", "U", "L", "T", "_", "T", "E", "S", "T", "S", "Y", "S", "_", "K", "U", "B", "E", "C", "O", "N", "F", "I", "G", "_", "P", "A", "T", "H">>,
                   <<"C", "A", "R", "G", "O", "_", "M", "A", "K", "E", "_", "T", "E", "S", "T", "S", "Y", "S", "_", "A", "R", "G", "S">>,
                   <<"C", "A", "R", "G", "O", "_", "M", "A", "K", "E", "_", "T", "E", "S", "T", "S", "Y", "S", "_", "K", "U", "B", "E", "C", "O", "N", "F", "I", "G", "_", "A", "R", "G">>,
                   <<"M", "A", "R", "K", "_", "O", "V", "A", "_", "A", "S", "_", "T", "E", "M", "P", "L", "A", "T", "E">>,
                   <<"R", "E", "L", "E", "A", "S", "E", "_", "S", "T", "A", "R", "T", "_", "T", "I", "M", "E">>,
                   <<"S", "S", "M", "_", "D", "A", "T", "A", "_", "F", "I", "L", "E", "_", "S", "U", "F", "F", "I", "X">>,
                   <<"V", "M", "W", "A", "R", "E", "_", "I", "M", "P", "O", "R", "T", "_", "S", "P", "E", "C", "_", "P", "A", "T", "H">>,
                   <<"V", "M", "W", "A", "R", "E", "_", "V", "M", "_", "N", "A", "M", "E", "_", "D", "E", "F", "A", "U", "L", "T">> }
        allowed(key) ==
            \/ \E p \in prefixes : Len(p) <= Len(key) /\ SubSeq(key, 1, Len(p)) = p
            \/ key \in exact
        \* the pairs of the host loop end where the pair made from
        \* --cargo-home starts
        host_end == IF task_at = 0 THEN Len(args) ELSE task_at - 3
        passed(hv) ==
            \E j \in 1..(host_end - 1) :
                /\ args[j] = <<"-", "e">>
                /\ args[j + 1] = hv.key \o <<"=">> \o hv.val
    IN
    ecmd = "exec" =>
        /\ Cardinality(ENV_VARS) = 13
        /\ \A i \in 1..Len(henv) :
             /\ passed(henv[i]) <=> allowed(henv[i].key)
             /\ henv[i].key \in { <<"B", "U", "I", "L", "D", "S", "Y", "S", "_", "A", "R", "C", "H">>,
                                  <<"C", "A", "R", "G", "O", "_", "M", "A", "K", "E", "_", "D", "E", "F", "A", "U", "L", "T", "_", "T", "E", "S", "T", "S", "Y", "S", "_", "K", "U", "B", "E", "C", "O", "N", "F", "I", "G", "_", "P", "A", "T", "H">> }
                    => passed(henv[i])
             /\ henv[i].key \in { <<"P", "A", "T", "H">>, <<"H", "O", "M", "E">> } => ~passed(henv[i])

C12_Witness ==
    /\ ecmd = "exec" /\ epc = "spawn"
    /\ henv = << [key |-> <<"B", "U", "I", "L", "D", "S", "Y", "S", "_", "A", "R", "C", "H">>, val |-> <<"x", "8", "6", "_", "6", "4">>],
                 [key |-> <<"P", "A", "T", "H">>, val |-> <<"/", "b", "i", "n">>] >>
    /\ Len(args) >= 8
    /\ args[7] = <<"-", "e">> /\ args[8] = <<"B", "U", "I", "L", "D", "S", "Y", "S", "_", "A", "R", "C", "H", "=", "x", "8", "6", "_", "6", "4">>
    /\ \A j \in 1..Len(args) : args[j] # <<"P", "A", "T", "H", "=", "/", "b", "i", "n">>

\* C13: the vector Exec::run hands to cargo is, in this order: make and
\* --disable-check-for-updates, --makefile with the task-definition path,
\* --cwd with the working directory, the -e NAME=VALUE pairs, the task name,
\* and the additional arguments in the order given as its last elements; for
\* the task build and the additional arguments [--foo] it ends build, --foo.
C13_ArgumentOrder ==
    (ecmd = "exec" /\ task_at > 0) =>
        /\ SubSeq(args, 1, 6) = <<<<"m", "a", "k", "e">>, <<"-", "-", "d", "i", "s", "a", "b", "l", "e", "-", "c", "h", "e", "c", "k", "-", "f", "o", "r", "-", "u", "p", "d", "a", "t", "e", "s">>,
                                  <<"-", "-", "m", "a", "k", "e", "f", "i", "l", "e">>, makefile,
                                  <<"-", "-", "c", "w", "d">>, project_dir_display>>
        /\ task_at >= 9 /\ (task_at - 7) % 2 = 0
        /\ \A j \in 7..(task_at - 1) :
             IF (j - 7) % 2 = 0 THEN args[j] = <<"-", "e">>
             ELSE \E k \in 1..Len(args[j]) : args[j][k] = "="
        /\ args[task_at] = makefile_task
        /\ SubSeq(args, task_at + 1, Len(args)) = additional_args
        /\ (makefile_task = <<"b", "u", "i", "l", "d">> /\ additional_args = <<<<"-", "-", "f", "o", "o">>>>)
             => /\ args[Len(args) - 1] = <<"b", "u", "i", "l", "d">>
                /\ args[Len(args)] = <<"-", "-", "f", "o", "o">>

C13_Witness ==
    /\ ecmd = "exec" /\ epc = "spawn"
    /\ additional_args = <<<<"-", "-", "f", "o", "o">>>>
    /\ Len(henv) = 2
    /\ task_at = 11
    /\ args[task_at] = <<"b", "u", "i", "l", "d">>
    /\ Len(args) = 12 /\ args[12] = <<"-", "-", "f", "o", "o">>

\* C14 (as claimed): in the vector of Exec::run every -e NAME=VALUE pair
\* before the task name has an allow-listed NAME.
C14_OnlyAllowListedNames ==
    (ecmd = "exec" /\ task_at > 0) =>
        \A j \in 1..(task_at - 2) :
            args[j] = <<"-", "e">> => is_build_system_env(name_of(args[j + 1]))

\* C14 (amended): every -e NAME=VALUE pair before the task name is a host
\* variable with an allow-listed NAME, or it is the last pair before the
\* task name, which is CARGO_HOME=<--cargo-home>; CARGO_HOME is not
\* allow-listed.
C14_AllowListedOrCargoHome ==
    (ecmd = "exec" /\ task_at > 0) =>
        /\ ~is_build_system_env(<<"C", "A", "R", "G", "O", "_", "H", "O", "M", "E">>)
        /\ args[task_at - 2] = <<"-", "e">>
        /\ args[task_at - 1] = <<"C", "A", "R", "G", "O", "_", "H", "O", "M", "E", "=">> \o cargo_home
        /\ \A j \in 1..(task_at - 4) :
             args[j] = <<"-", "e">> =>
                 /\ is_build_system_env(name_of(args[j + 1]))
                 /\ \E i \in 1..Len(henv) :
                      args[j + 1] = henv[i].key \o <<"=">> \o henv[i].val

C14_Witness ==
    /\ ecmd = "exec" /\ epc = "spawn"
    /\ cargo_home = <<"/", "c">>
    /\ task_at = 11
    /\ args[8] = <<"B", "U", "I", "L", "D", "S", "Y", "S", "_", "A", "R", "C", "H", "=", "x", "8", "6", "_", "6", "4">>
    /\ args[10] = <<"C", "A", "R", "G", "O", "_", "H", "O", "M", "E", "=", "/", "c">>
    /\ \E i \in 1..Len(henv) : henv[i].key = <<"C", "A", "R", "G", "O", "_", "H", "O", "M", "E">>

C16_ExecResult ==
    (ecmd = "command" /\ epc = "returned") =>
        /\ eres.ok <=> (child.started /\ child.code = {0})
        /\ (child.started /\ child.code \notin {{}, {0}}) =>
             /\ eres.code = child.code
             /\ eres.mode = "buffered" =>
                    eres.output = {<<child.stdout, child.stderr>>}

C18_InstallAndImageBeforeRunner ==
    runner # "none" =>
        /\ last.valid /\ last.ok
        /\ presult = "Ok" /\ pimage # {}

\* C19: uri() is a function of the fields: ImageUri gives repo:tag without a
\* registry and registry/repo:tag with one, ImageArchUri gives name-arch:tag
\* and registry/name-arch:tag (sdk-x86_64:v1, reg/sdk-x86_64:v1, repo:v1,
\* reg/repo:v1).
C19_UriFormat ==
    LET cat(parts) == parts[1] \o parts[2] \o parts[3] \o parts[4] \o parts[5]
                          \o parts[6] \o parts[7]
        reg == IF uloc.registry = {} THEN <<>>
               ELSE (CHOOSE x \in uloc.registry : TRUE) \o <<"/">>
        expected ==
            IF uloc.kind = "ImageUri"
            THEN cat(<<reg, uloc.repo, <<":">>, uloc.tag, <<>>, <<>>, <<>>>>)
            ELSE cat(<<reg, uloc.name, <<"-">>, uloc.arch, <<":">>, uloc.tag, <<>>>>)
    IN
    upc = "done" =>
        /\ urendered = expected
        /\ uloc = ImageArchUri_new({}, <<"s", "d", "k">>, <<"x", "8", "6", "_", "6", "4">>, <<"v", "1">>)
               => urendered = <<"s", "d", "k", "-", "x", "8", "6", "_", "6", "4", ":", "v", "1">>
        /\ uloc = ImageArchUri_new({<<"r", "e", "g">>}, <<"s", "d", "k">>, <<"x", "8", "6", "_", "6", "4">>, <<"v", "1">>)
               => urendered = <<"r", "e", "g", "/", "s", "d", "k", "-", "x", "8", "6", "_", "6", "4", ":", "v", "1">>
        /\ uloc = ImageUri_new({}, <<"r", "e", "p", "o">>, <<"v", "1">>) => urendered = <<"r", "e", "p", "o", ":", "v", "1">>
        /\ uloc = ImageUri_new({<<"r", "e", "g">>}, <<"r", "e", "p", "o">>, <<"v", "1">>)
               => urendered = <<"r", "e", "g", "/", "r", "e", "p", "o", ":", "v", "1">>

C19_Witness ==
    /\ upc = "done"
    /\ uloc = ImageArchUri_new({<<"r", "e", "g">>}, <<"s", "d", "k">>, <<"x", "8", "6", "_", "6", "4">>, <<"v", "1">>)
    /\ urendered = <<"r", "e", "g", "/", "s", "d", "k", "-", "x", "8", "6", "_", "6", "4", ":", "v", "1">>

\* C20 (as claimed): when testsys is immediately followed by test, the scan
\* returns the path of the first later file option, in the forms -f P,
\* --file P, -f=P and --file=P, where only a token that is -f or --file, alone
\* or followed by '=', is the file option and P is the whole value.
C20_ScanReturnsFilePath ==
    LET is_eq_form(t) == str_starts_with(t, <<"-", "f", "=">>) \/ str_starts_with(t, <<"-", "-", "f", "i", "l", "e", "=">>)
        is_file_option(t) == t \in {<<"-", "f">>, <<"-", "-", "f", "i", "l", "e">>} \/ is_eq_form(t)
        pairs == {i \in 1..(Len(sargs) - 1) :
                     sargs[i] = <<"t", "e", "s", "t", "s", "y", "s">> /\ sargs[i + 1] = <<"t", "e", "s", "t">>}
        options == {j \in 1..Len(sargs) :
                       /\ \E i \in pairs : i + 1 < j
                       /\ is_file_option(sargs[j])}
        opt == CHOOSE j \in options : \A k \in options : j <= k
        value == IF is_eq_form(sargs[opt])
                 THEN SubSeq(sargs[opt], Len(name_of(sargs[opt])) + 2,
                             Len(sargs[opt]))
                 ELSE sargs[opt + 1]
    IN
    (/\ spc = "done"
     /\ options # {}
     /\ is_eq_form(sargs[opt]) \/ opt < Len(sargs)
     /\ value # <<>>)
        => sfound = {value}

\* C21 (as claimed): the scan returns a path only if the arguments hold
\* testsys immediately followed by test and, after them, a file option (any
\* token the scan takes for one: it starts with -f or --file) with a non-empty
\* value; it returns None when testsys is absent, when the token after
\* testsys is not test, and when the option is -f= or --file=.
C21_ScanPathOnlyIf ==
    LET is_option(t) == str_starts_with(t, <<"-", "f">>) \/ str_starts_with(t, <<"-", "-", "f", "i", "l", "e">>)
        is_eq_form(t) == str_starts_with(t, <<"-", "f", "=">>) \/ str_starts_with(t, <<"-", "-", "f", "i", "l", "e", "=">>)
        has_value(j) ==
            IF is_eq_form(sargs[j]) THEN Len(sargs[j]) > Len(name_of(sargs[j])) + 1
            ELSE j < Len(sargs) /\ sargs[j + 1] # <<>>
        first_testsys == skip_while(sargs, 1, {<<"t", "e", "s", "t", "s", "y", "s">>})
        options == {j \in (first_testsys + 2)..Len(sargs) : is_option(sargs[j])}
        option == CHOOSE j \in options : \A k \in options : j <= k
    IN
    spc = "done" =>
        /\ sfound # {} =>
               \E i \in 1..(Len(sargs) - 1) :
                   /\ sargs[i] = <<"t", "e", "s", "t", "s", "y", "s">> /\ sargs[i + 1] = <<"t", "e", "s", "t">>
                   /\ \E j \in (i + 2)..Len(sargs) : is_option(sargs[j]) /\ has_value(j)
        /\ first_testsys > Len(sargs) => sfound = {}
        /\ (first_testsys = Len(sargs) \/ (first_testsys < Len(sargs) /\ sargs[first_testsys + 1] # <<"t", "e", "s", "t">>))
               => sfound = {}
        /\ (/\ first_testsys < Len(sargs)
            /\ sargs[first_testsys + 1] = <<"t", "e", "s", "t">>
            /\ options # {}
            /\ sargs[option] \in {<<"-", "f", "=">>, <<"-", "-", "f", "i", "l", "e", "=">>}) => sfound = {}

\* C22: in `exec`, among the -e pairs handed to the task runner exactly one
\* has the name CARGO_HOME, it is CARGO_HOME=<--cargo-home>, and no pair
\* comes from the host's own CARGO_HOME (the host loop yields no pair of that
\* name, whatever value the host has).
C22_CargoHomeIsArgument ==
    LET pairs == {j \in 1..(task_at - 2) :
                     /\ args[j] = <<"-", "e">>
                     /\ name_of(args[j + 1]) = <<"C", "A", "R", "G", "O", "_", "H", "O", "M", "E">>}
        host_end == task_at - 3
    IN
    (ecmd = "exec" /\ task_at > 0) =>
        /\ Cardinality(pairs) = 1
        /\ \A j \in pairs : args[j + 1] = env_pair(<<"C", "A", "R", "G", "O", "_", "H", "O", "M", "E">>, cargo_home)
        /\ \A j \in 1..host_end : name_of(args[j]) # <<"C", "A", "R", "G", "O", "_", "H", "O", "M", "E">>

C22_Witness ==
    /\ ecmd = "exec" /\ epc = "spawn" /\ task_at = 9
    /\ cargo_home = <<"/", "c">>
    /\ henv = <<[key |-> <<"C", "A", "R", "G", "O", "_", "H", "O", "M", "E">>, val |-> <<"/", "h">>]>>
    /\ args[8] = <<"C", "A", "R", "G", "O", "_", "H", "O", "M", "E", "=", "/", "c">>

\* C23: exec (twoliter/src/common.rs) runs the command buffered exactly when
\* log::max_level() is Off, Error or Warn and streamed exactly when it is
\* Info, Debug or Trace; a streamed failure's message holds no captured
\* output, a buffered unsuccessful one holds the child's stdout and stderr.
C23_ModeFollowsLogLevel ==
    (rev = "twoliter" /\ epc \in {"returned", "exited"}) =>
        /\ eres.mode = "buffered" <=> log_level \in {"Off", "Error", "Warn"}
        /\ eres.mode = "streamed" <=> log_level \in {"Info", "Debug", "Trace"}
        /\ (eres.mode = "streamed" /\ ~eres.ok) => eres.output = {}
        /\ (eres.mode = "buffered" /\ eres.err = "unsuccessful")
               => eres.output = {<<child.stdout, child.stderr>>}

C23_Witness ==
    /\ rev = "twoliter" /\ epc = "returned" /\ ecmd = "command"
    /\ log_level = "Info"
    /\ child.started /\ child.code = {1} /\ child.stdout = "out"
    /\ ~eres.ok /\ eres.mode = "streamed" /\ eres.output = {}

\* ------------------------------------------------ claims: image provisioning
\* C24: create_twoliter_image_if_not_exists makes no existence check: a call
\* that gets through its preparation runs docker build exactly once, also
\* when the tag is already in the image store (no call runs it twice, and
\* only a failure before the build ends a call without it); the build gets
\* BASE = the uri of the given sdk, and the tag returned is twoliter:latest
\* for every sdk and architecture.
C24_AlwaysBuildsFixedTag ==
    LET reached_build == ppc = Len(ProvSteps) /\ presult # "none"
    IN
    /\ pbuilds <= 1
    /\ reached_build => pbuilds = 1
    /\ (presult # "none" /\ pbuilds = 0) => presult \in {"Err", "panic"}
    /\ pbuilds = 1 =>
          /\ pbase = (IF psdk.registry = {} THEN <<>>
                      ELSE (CHOOSE x \in psdk.registry : TRUE) \o <<"/">>)
                         \o psdk.name \o <<"-">> \o psdk.arch \o <<":">> \o psdk.tag
          /\ psdk = ImageArchUri_new({<<"r", "e", "g">>}, <<"s", "d", "k">>, <<"a", "a", "r", "c", "h", "6", "4">>, <<"v", "1">>)
                 => pbase = <<"r", "e", "g", "/", "s", "d", "k", "-", "a", "a", "r", "c", "h", "6", "4", ":", "v", "1">>
    /\ presult = "Ok" =>
          /\ pbuilds = 1
          /\ \E image \in pimage : ImageUri_uri(image) = <<"t", "w", "o", "l", "i", "t", "e", "r", ":", "l", "a", "t", "e", "s", "t">>
    /\ presult # "Ok" => pimage = {}

C24_Witness ==
    /\ pexists /\ presult = "Ok" /\ pbuilds = 1
    /\ psdk = ImageArchUri_new({<<"r", "e", "g">>}, <<"s", "d", "k">>, <<"a", "a", "r", "c", "h", "6", "4">>, <<"v", "1">>)
    /\ pbase = <<"r", "e", "g", "/", "s", "d", "k", "-", "a", "a", "r", "c", "h", "6", "4", ":", "v", "1">>
    /\ pimage = {ImageUri_new({}, <<"t", "w", "o", "l", "i", "t", "e", "r">>, <<"l", "a", "t", "e", "s", "t">>)}

\* C25 (as claimed): whichever step of image provisioning fails (creating the
\* scratch context, writing the tool bundle, unpacking it, removing the
\* archive, writing the image definition, running docker build), the call
\* ends with an error result; it never ends by a panic.
C25_FailuresAreErrors ==
    presult \in {"none", "Ok", "Err"}

C28_PreexistingUntouched ==
    [][\A p \in {"sbkeys", "models"} :
           bfs_start[p] = "dir" =>
               /\ \A i \in 1..Len(created_files') : created_files'[i] # p
               /\ \A i \in 1..Len(to_delete') : to_delete'[i] # p
               /\ bpc # "exec" => bfs'[p] = bfs[p]
               /\ (bpc' = "returned" /\ runner' = "none") => bfs'[p] = "dir"]_vars

C28_Witness ==
    /\ bpc = "returned" /\ result = "Ok"
    /\ bfs_start["models"] = "dir" /\ bfs_start["sbkeys"] = "dir"
    /\ cleanup_runs = 1 /\ cthread = "finished" /\ to_delete = <<>>
    /\ bfs["models"] = "dir" /\ bfs["sbkeys"] = "dir"

\* C29 (as claimed): a sbkeys or sources/models directory that run created
\* because it was missing is recorded in created_files, and it no longer
\* exists once run has returned.
C29_CreatedDirsRecordedAndGone ==
    \A p \in {"sbkeys", "models"} :
        bfs_start[p] = "none" =>
            /\ (bfs[p] = "dir" /\ runner = "none" /\ cthread = "none")
                  => \E i \in 1..Len(created_files) : created_files[i] = p
            /\ bpc = "returned" => bfs[p] = "none"

\* C30: the cleanup Drop starts is synchronous and comes after the task
\* runner: no cleanup exists before run has left its body (while the task
\* runner is still to run or running there is none, and when it was invoked
\* it has finished), run sits in thread.join() for as long as the cleanup
\* runs, and when run's result has reached the caller no cleanup is running.
C30_CleanupSynchronous ==
    /\ cthread # "none" => bpc \in {"join", "drop_fields", "returned"}
    /\ cthread = "running" => bpc = "join"
    /\ bpc \in {"drop_fields", "returned"} => cthread # "running"
    /\ cthread # "none" =>
          \/ runner # "none"
          \/ result \in {"Err:copy_rpms", "Err:sbkeys", "Err:models", "Err:prepare"}
    /\ (bpc = "returned" /\ sdk # "none") => cthread = "finished"

C30_Witness ==
    /\ bpc = "returned" /\ runner = "Err:build" /\ result = "Err:build"
    /\ cthread = "finished" /\ to_delete = <<"models">>
    /\ cleanup_result = "Ok"

\* ------------------------------------------ claims: concurrent installation
\* C27: install_tools invocations on one tools directory are not serialized:
\* their steps interleave, and with two different bundle hashes the tools
\* directory can be left with the marker holding one invocation's hash while
\* every member file was last written by another one. When no invocation has
\* failed, such a state at rest (no invocation between its check and its
\* end) comes about only from invocations that overlapped: each write is
\* kept until the next write of the same file, whoever makes it.
C27_MixedOnlyByInterleaving ==
    LET marker == tfiles[installed]
        at_rest == \A p \in Procs : inv[p].pc \in {"idle", "done"}
        mixed == /\ marker \in Hashes
                 /\ \A m \in Members : members[m] \in Hashes \ {marker}
    IN
    /\ (mixed /\ at_rest /\ ~conc.failed) => conc.overlap
    /\ (at_rest /\ ~conc.failed /\ ~conc.overlap /\ conc.started > 0)
          => \A m \in Members : members[m] = marker

C27_Witness ==
    /\ conc.started = 2 /\ conc.overlap /\ ~conc.failed
    /\ \A p \in Procs : inv[p].pc = "idle"
    /\ last.ok
    /\ tfiles[installed] = 1
    /\ \A m \in Members : members[m] = 2

====
